---------------------------- MODULE Spec2Model ----------------------------
(***************************************************************************)
(* A model of the autonomous multi-agent system in src/src/agent:          *)
(*   - the agents' autonomous loops and task execution (base_agent.py,     *)
(*     specialized_agents.py),                                             *)
(*   - the project manager's task decomposition and its keyword fallback   *)
(*     (specialized_agents.py),                                            *)
(*   - the coordinator: submission queue, monitoring loop, dispatch,       *)
(*     completion wait, classification, wait_for_completion and the        *)
(*     status accessors (system_coordinator.py),                           *)
(*   - TaskBuilder (utils.py).                                             *)
(*                                                                         *)
(* Python strings that the code inspects are sequences of one-character    *)
(* strings.  All coroutines run on one asyncio scheduler, so one action is *)
(* the code between two suspension points (an await that really suspends). *)
(***************************************************************************)
EXTENDS Naturals, Integers, Sequences, FiniteSets, TLC

VARIABLES
    \* ---- claude_sdk_interface.SDK_AVAILABLE
    sdk_available,
    \* ---- AutonomousAgent fields, one entry per agent id
    is_running,            \* agent.is_running
    message_queue,         \* agent.message_queue (FIFO of AgentMessage)
    current_tasks,         \* agent.current_tasks (list of Task objects, by identity)
    completed_tasks,       \* agent.completed_tasks
    task_results,          \* agent.task_results (base agent: task ids stored)
    recent_task_results,   \* CodingAgent.recent_task_results
    loops,                 \* live instances of _run_autonomous_loop per agent
    tasks,                 \* every Task object the agents ever created
    \* ---- AutonomousMultiAgentSystem fields
    system_is_running,     \* system.is_running
    global_task_queue,     \* system.global_task_queue
    completed_projects,    \* system.completed_projects
    message_log,           \* system.message_log
    monitors,              \* live instances of _system_monitoring_loop
    \* ---- callers of the public API (the environment)
    dequeued,              \* history: submissions taken from global_task_queue
    calls,                 \* history: how often each bounded API was called, the texts
                           \* submitted, and what the last accessor call returned
    wfc,                   \* the caller of wait_for_completion
    \* ---- the registries of AutonomousMultiAgentSystem and their callers
    all_agents,            \* system.all_agents (agent id -> agent object)
    coding_agents,         \* system.coding_agents
    registry_call,         \* history: the last call of add_custom_agent or
                           \* remove_agent, and what it returned
    \* ---- ProjectManagerAgent.analyze_and_delegate_task called on its own
    pm_main_task, pm_reply, pm_result,
    \* ---- a TaskBuilder object and the text of its latest build()
    objective, requirements, constraints, deliverables, built

agentVars   == <<is_running, message_queue, current_tasks, completed_tasks,
                 task_results, recent_task_results, loops, tasks>>
coordVars   == <<system_is_running, global_task_queue, completed_projects,
                 message_log, monitors, dequeued>>
envVars     == <<calls, wfc>>
pmVars      == <<pm_main_task, pm_reply, pm_result>>
builderVars == <<objective, requirements, constraints, deliverables, built>>
registryVars == <<all_agents, coding_agents, registry_call>>
vars == <<sdk_available, agentVars, coordVars, envVars, pmVars, builderVars,
          registryVars>>

---------------------------------------------------------------------------
(* Bounds of the model.                                                    *)
MaxWords    == 3   \* fragments concatenated into a project text
MaxSubtasks == 2   \* subtasks in one decomposition reply
MaxItems    == 4   \* items added to a TaskBuilder, over its three lists

---------------------------------------------------------------------------
(* Strings.                                                                *)

UpperCase == <<"A", "B", "C", "D", "E", "F", "G", "H", "I", "J", "K", "L", "M",
               "N", "O", "P", "Q", "R", "S", "T", "U", "V", "W", "X", "Y", "Z">>
LowerCase == <<"a", "b", "c", "d", "e", "f", "g", "h", "i", "j", "k", "l", "m",
               "n", "o", "p", "q", "r", "s", "t", "u", "v", "w", "x", "y", "z">>

\* str.lower(), one character
LowerChar(c) ==
    IF \E i \in 1..Len(UpperCase) : UpperCase[i] = c
    THEN LowerCase[CHOOSE i \in 1..Len(UpperCase) : UpperCase[i] = c]
    ELSE c

\* str.lower()
Lower(s) == [i \in 1..Len(s) |-> LowerChar(s[i])]

\* `word in s` on Python strings: word is a contiguous substring of s
Contains(s, word) ==
    \E i \in 1..(Len(s) - Len(word) + 1) : SubSeq(s, i, i + Len(word) - 1) = word

\* sep.join(parts)
RECURSIVE Join(_, _)
Join(parts, sep) ==
    IF parts = <<>> THEN <<>>
    ELSE IF Len(parts) = 1 THEN parts[1]
    ELSE parts[1] \o sep \o Join(Tail(parts), sep)

\* the concatenations of at most n elements of the set of strings S
RECURSIVE Concats(_, _)
Concats(S, n) ==
    IF n = 0 THEN {<<>>}
    ELSE LET shorter == Concats(S, n - 1)
         IN  shorter \cup {w \o s : w \in S, s \in shorter}

\* the sequences over S of length at most n
SeqsUpTo(S, n) == UNION {[1..k -> S] : k \in 0..n}

---------------------------------------------------------------------------
(* ProjectManagerAgent: decomposition and its fallback.                    *)

FrontendKeywords ==
    { <<"r", "e", "a", "c", "t">>, <<"v", "u", "e">>, <<"h", "t", "m", "l">>,
      <<"c", "s", "s">>, <<"f", "r", "o", "n", "t", "e", "n", "d">>, <<"u", "i">>,
      <<"c", "o", "m", "p", "o", "n", "e", "n", "t">> }
DevopsKeywords ==
    { <<"d", "o", "c", "k", "e", "r">>, <<"d", "e", "p", "l", "o", "y">>,
      <<"c", "i">>, <<"c", "d">>,
      <<"k", "u", "b", "e", "r", "n", "e", "t", "e", "s">>,
      <<"d", "e", "v", "o", "p", "s">> }

\* _create_fallback_task: the assignee chosen from the task's text
FallbackAssignee(main_task) ==
    LET task_lower == Lower(main_task)
    IN  IF \E word \in FrontendKeywords : Contains(task_lower, word)
        THEN "frontend_coder"
        ELSE IF \E word \in DevopsKeywords : Contains(task_lower, word)
        THEN "devops_coder"
        ELSE "backend_coder"

\* _create_fallback_task: the list it returns
CreateFallbackTask(main_task) ==
    << [ id                 |-> <<"fallback_task", 1>>,
         description        |-> main_task,
         assigned_to        |-> FallbackAssignee(main_task),
         status             |-> "pending",
         priority           |-> 1,
         estimated_duration |-> 30,
         tools_needed       |-> <<"Write", "Edit", "Read">>,
         dependencies       |-> <<>> ] >>

\* What a decomposition reply can hold in the "assigned_to" of a subtask: a
\* coding agent's id, an id no agent has, no key at all, or a JSON array
\* (which Python cannot hash).
JsonAssignees == {"frontend_coder", "backend_coder", "devops_coder",
                  "qa_tester", "absent", "unhashable"}

\* The outcomes of the external call made by analyze_and_delegate_task:
\*   raise     execute_claude_query raised
\*   empty     the accumulated text is empty or blank
\*   nojson    the text has no { ... } span
\*   badjson   json.loads raised JSONDecodeError
\*   badshape  the JSON value is not an object holding a list of objects
\*   json      an object whose "subtasks" list was read
ReplyKinds == {"raise", "empty", "nojson", "badjson", "badshape", "json"}
NoReply == [kind |-> "none", subtasks |-> <<>>]
Replies(assignees) ==
    {[kind |-> k, subtasks |-> <<>>] : k \in ReplyKinds}
    \cup {[kind |-> "json", subtasks |-> s] : s \in SeqsUpTo(assignees, MaxSubtasks)}

\* analyze_and_delegate_task: one Task per subtask of the parsed reply
TaskFromJson(description, assignee, n) ==
    [ id                 |-> <<"task", n>>,
      description        |-> description,
      assigned_to        |-> IF assignee = "absent" THEN "backend_coder" ELSE assignee,
      status             |-> "pending",
      priority           |-> 1,
      estimated_duration |-> 30,
      tools_needed       |-> <<"Write", "Edit">>,
      dependencies       |-> <<>> ]

\* the mutant of NoTasks under which an empty list of tasks is returned as it is
NoTasksUnchecked(reply) == FALSE

\* analyze_and_delegate_task: if not tasks
NoTasks(reply) == reply.subtasks = <<>>

\* analyze_and_delegate_task
AnalyzeAndDelegateTask(main_task, sdk, reply) ==
    IF ~sdk THEN CreateFallbackTask(main_task)
    ELSE IF reply.kind \in {"raise", "empty", "nojson", "badjson", "badshape"}
    THEN CreateFallbackTask(main_task)
    ELSE IF NoTasks(reply) THEN CreateFallbackTask(main_task)
    ELSE [n \in 1..Len(reply.subtasks) |->
             TaskFromJson(main_task, reply.subtasks[n], n)]

\* A main_task that is a list and not a str: it can be sliced, formatted and
\* queued like a text, but it has no lower().
ListInput == <<"list">>
IsStr(main_task) == main_task # ListInput

\* analyze_and_delegate_task raises: _create_fallback_task raises on
\* main_task.lower(), inside the try and again in the except clause
AnalyzeRaises(main_task, sdk, reply) ==
    /\ ~IsStr(main_task)
    /\ \/ ~sdk
       \/ reply.kind # "json"
       \/ reply.subtasks = <<>>

---------------------------------------------------------------------------
(* TaskBuilder.                                                            *)

MainObjectivePrefix == <<"M", "a", "i", "n", " ", "O", "b", "j", "e", "c", "t",
                         "i", "v", "e", ":", " ">>
ItemPrefix          == <<"-", " ">>
RequirementsHeader  == <<"R", "e", "q", "u", "i", "r", "e", "m", "e", "n", "t", "s", ":">>
ConstraintsHeader   == <<"C", "o", "n", "s", "t", "r", "a", "i", "n", "t", "s", ":">>
DeliverablesHeader  == <<"D", "e", "l", "i", "v", "e", "r", "a", "b", "l", "e", "s", ":">>
NewLine             == <<"\n">>

\* [f"- {x}" for x in items]
ItemLines(items) == [i \in 1..Len(items) |-> ItemPrefix \o items[i]]

\* one section of build(): nothing for an empty list
Section(header, items) ==
    IF items = <<>> THEN <<>> ELSE <<header>> \o ItemLines(items)

\* the mutant of BuildParts that writes the constraints before the requirements
BuildPartsSwapped(obj, reqs, cons, dels) ==
    (IF obj # <<>> THEN <<MainObjectivePrefix \o obj>> ELSE <<>>)
    \o Section(ConstraintsHeader, cons)
    \o Section(RequirementsHeader, reqs)
    \o Section(DeliverablesHeader, dels)

\* TaskBuilder.build: task_parts
BuildParts(obj, reqs, cons, dels) ==
    (IF obj # <<>> THEN <<MainObjectivePrefix \o obj>> ELSE <<>>)
    \o Section(RequirementsHeader, reqs)
    \o Section(ConstraintsHeader, cons)
    \o Section(DeliverablesHeader, dels)

\* TaskBuilder.build: the text returned
Build(obj, reqs, cons, dels) == Join(BuildParts(obj, reqs, cons, dels), NewLine)

NotBuilt == [done |-> FALSE, text |-> <<>>]

---------------------------------------------------------------------------
(* Agents.                                                                 *)

MaxSend == 2   \* messages that callers other than the coordinator enqueue

\* AutonomousMultiAgentSystem.__init__: coding_agents and all_agents
CodingAgents == {"frontend_coder", "backend_coder", "devops_coder"}
Agents       == {"project_manager"} \cup CodingAgents

\* CodingAgent._execute_task keeps this many recent results
RecentLimit == 10

\* MessageType
MessageTypes == {"task_request", "task_result", "status_update", "coordination"}

\* the file lists that the directory diff of execute_coding_task can give
FileLists == {<<>>, <<"app.py">>}

\* Task.result: None, the text of the base agent, or the dict of a coding agent
\* (error: whether the dict has an "error" key). project is history: the
\* submission the task was dispatched for, 0 when no project asked for it.
NoResult == [kind |-> "none", error |-> FALSE, created_files |-> <<>>, project |-> 0]
TextResult(p)  == [kind |-> "text", error |-> FALSE, created_files |-> <<>>, project |-> p]
\* the mutant of ErrorText that leaves the result of a failed task unset
ErrorTextUnset(p) == [kind |-> "none", error |-> FALSE, created_files |-> <<>>, project |-> 0]
ErrorText(p)   == [kind |-> "error_text", error |-> TRUE, created_files |-> <<>>, project |-> p]
DictResult(err, files, p) ==
    [kind |-> "dict", error |-> err, created_files |-> files, project |-> p]

\* AgentMessage, as the coordinator or another caller builds it
AgentMessage(sender, receiver, type, p) ==
    [sender_id |-> sender, receiver_id |-> receiver, message_type |-> type,
     priority |-> 1, project |-> p]

\* the mutant of NewTask that builds the Task as one already begun
NewTaskBegun(a, message) ==
    [assigned_to |-> a, status |-> "in_progress", trace |-> <<"in_progress">>,
     result |-> NoResult, priority |-> message.priority,
     project |-> message.project]

\* _process_agent_message: the Task built from a task_request
\* (trace is history: every value its status has had, in order)
NewTask(a, message) ==
    [assigned_to |-> a, status |-> "pending", trace |-> <<"pending">>,
     result |-> NoResult, priority |-> message.priority,
     project |-> message.project]

\* task.status = s
SetStatus(task, s) == [task EXCEPT !.status = s, !.trace = @ \o <<s>>]

\* list.remove(x): the first occurrence goes
RECURSIVE Remove(_, _)
Remove(list, x) ==
    IF list = <<>> THEN <<>>
    ELSE IF Head(list) = x THEN Tail(list)
    ELSE <<Head(list)>> \o Remove(Tail(list), x)

\* the list without its i-th element
RemoveAt(list, i) == SubSeq(list, 1, i - 1) \o SubSeq(list, i + 1, Len(list))

\* list[-n:] for n >= 0: the last n elements, and the whole list for n = 0
\* (-0 is 0, and list[0:] is the list)
LastN(list, n) ==
    IF n = 0 \/ Len(list) <= n THEN list
    ELSE SubSeq(list, Len(list) - n + 1, Len(list))

\* The part of the state one agent's task execution reads and writes.
AgentState(a) ==
    [tasks |-> tasks, current |-> current_tasks[a], completed |-> completed_tasks[a],
     results |-> task_results[a], recent |-> recent_task_results[a]]

\* the mutant of BeginTask that forgets to mark the task
BeginTaskUnmarked(st, t) == st

\* AutonomousAgent._execute_task up to the external call
BeginTask(st, t) == [st EXCEPT !.tasks[t] = SetStatus(@, "in_progress")]

\* the mutant of FailBaseTask that takes the failed task out of current_tasks
FailBaseTaskRemoves(st, t) ==
    [st EXCEPT !.tasks[t] = [SetStatus(@, "failed") EXCEPT
                                !.result = ErrorText(st.tasks[t].project)],
               !.current = Remove(@, t)]

\* AutonomousAgent._execute_task: its except clause
FailBaseTask(st, t) ==
    [st EXCEPT !.tasks[t] = [SetStatus(@, "failed") EXCEPT
                                !.result = ErrorText(st.tasks[t].project)]]

\* the mutant of FinishBaseTask that leaves a finished task in current_tasks
FinishBaseTaskKeeps(st, t, ok) ==
    IF ok
    THEN [st EXCEPT !.tasks[t] = [SetStatus(@, "completed") EXCEPT
                                     !.result = TextResult(st.tasks[t].project)],
                    !.completed = @ + 1,
                    !.results = @ \o <<t>>]
    ELSE FailBaseTask(st, t)

\* AutonomousAgent._execute_task after the external call: it returned (ok) or
\* raised, and the except clause ran
FinishBaseTask(st, t, ok) ==
    IF ok
    THEN [st EXCEPT !.tasks[t] = [SetStatus(@, "completed") EXCEPT
                                     !.result = TextResult(st.tasks[t].project)],
                    !.completed = @ + 1,
                    !.current = Remove(@, t),
                    !.results = @ \o <<t>>]
    ELSE FailBaseTask(st, t)

\* CodingAgent.execute_coding_task: its returned dict and what it adds to
\* completed_tasks. outcome is "unavailable" (no SDK: returns at once),
\* "raise" (the external call or the directory set-up raised) or "ok".
CodingResult(outcome, files, p) ==
    IF outcome = "ok" THEN DictResult(FALSE, files, p) ELSE DictResult(TRUE, <<>>, p)
CodingCount(outcome) == IF outcome = "ok" THEN 1 ELSE 0

\* the mutant of KeepRecent that cuts the buffer at its newer end
KeepRecentOldest(list) ==
    IF Len(list) > RecentLimit THEN SubSeq(list, 1, RecentLimit) ELSE list

\* CodingAgent._execute_task: the buffer is cut to its last 10 entries when it
\* has more
KeepRecent(list) ==
    IF Len(list) > RecentLimit THEN LastN(list, RecentLimit) ELSE list

\* the mutant of FinishCodingTask that treats a failed external call as the
\* base agent does: the task is marked failed and stays in current_tasks
FinishCodingTaskFails(st, t, outcome, files) ==
    LET result == CodingResult(outcome, files, st.tasks[t].project)
    IN  IF outcome = "ok"
        THEN [st EXCEPT !.tasks[t] = [SetStatus(@, "completed") EXCEPT !.result = result],
                        !.completed = @ + CodingCount(outcome) + 1,
                        !.recent = KeepRecent(@ \o <<result>>),
                        !.current = Remove(@, t)]
        ELSE [st EXCEPT !.tasks[t] = [SetStatus(@, "failed") EXCEPT !.result = result]]

\* CodingAgent._execute_task after execute_coding_task returned
FinishCodingTask(st, t, outcome, files) ==
    LET result == CodingResult(outcome, files, st.tasks[t].project)
    IN  [st EXCEPT !.tasks[t] = [SetStatus(@, "completed") EXCEPT !.result = result],
                   !.completed = @ + CodingCount(outcome) + 1,
                   !.recent = KeepRecent(@ \o <<result>>),
                   !.current = Remove(@, t)]

\* the mutant of IsPending that takes a failed task for one still to be done
IsPendingOrFailed(task) == task.status \in {"pending", "failed"}

\* _run_autonomous_loop: task.status == TaskStatus.PENDING
IsPending(task) == task.status = "pending"

\* The for loop of _run_autonomous_loop over its snapshot of current_tasks,
\* run to the next suspension: the external call of a task (pc "exec") or the
\* sleep that ends the iteration (pc "sleep"). A coding agent without the SDK
\* finishes a task without suspending.
RECURSIVE RunScan(_, _, _)
RunScan(st, a, scan) ==
    IF scan = <<>> THEN [st |-> st, pc |-> "sleep", cur |-> 0, scan |-> <<>>]
    ELSE LET t == Head(scan)
         IN  IF ~IsPending(st.tasks[t]) THEN RunScan(st, a, Tail(scan))
             ELSE IF a \in CodingAgents /\ ~sdk_available
             THEN RunScan(FinishCodingTask(BeginTask(st, t), t, "unavailable", <<>>),
                          a, Tail(scan))
             ELSE [st |-> BeginTask(st, t), pc |-> "exec", cur |-> t, scan |-> Tail(scan)]

\* write back what RunScan returns, for loop i of agent a
StoreAgent(a, i, r) ==
    /\ tasks' = r.st.tasks
    /\ current_tasks' = [current_tasks EXCEPT ![a] = r.st.current]
    /\ completed_tasks' = [completed_tasks EXCEPT ![a] = r.st.completed]
    /\ task_results' = [task_results EXCEPT ![a] = r.st.results]
    /\ recent_task_results' = [recent_task_results EXCEPT ![a] = r.st.recent]
    /\ loops' = [loops EXCEPT ![a][i] = [@ EXCEPT !.pc = r.pc, !.cur = r.cur,
                                                   !.scan = r.scan]]

\* a loop task as create_task makes it; stopped records that stop() was called
\* while the loop was alive
NewLoop == [pc |-> "sleep", cur |-> 0, scan |-> <<>>, stopped |-> FALSE]

\* AutonomousAgent.send_message_to_agent, called by anyone but the coordinator,
\* while fewer than n such calls were made
SendMessageWithin(a, type, n) ==
    /\ calls.send < n
    /\ calls' = [calls EXCEPT !.send = @ + 1]
    /\ message_queue' = [message_queue EXCEPT
                            ![a] = Append(@, AgentMessage("caller", a, type, 0))]
    /\ UNCHANGED <<sdk_available, is_running, current_tasks, completed_tasks,
                   task_results, recent_task_results, loops, tasks, coordVars,
                   wfc, pmVars, builderVars, registryVars>>

SendMessageToAgent(a, type) == SendMessageWithin(a, type, MaxSend)

\* the mutant of AgentLoopExit under which a loop ends whatever the flag says
AgentLoopExitAnytime(a, i) ==
    /\ loops[a][i].pc = "sleep"
    /\ loops' = [loops EXCEPT ![a] = RemoveAt(@, i)]
    /\ UNCHANGED <<sdk_available, is_running, message_queue, current_tasks,
                   completed_tasks, task_results, recent_task_results, tasks,
                   coordVars, envVars, pmVars, builderVars, registryVars>>

\* _run_autonomous_loop: the loop finds is_running false and ends
AgentLoopExit(a, i) ==
    /\ loops[a][i].pc = "sleep"
    /\ ~is_running[a]
    /\ loops' = [loops EXCEPT ![a] = RemoveAt(@, i)]
    /\ UNCHANGED <<sdk_available, is_running, message_queue, current_tasks,
                   completed_tasks, task_results, recent_task_results, tasks,
                   coordVars, envVars, pmVars, builderVars, registryVars>>

\* the mutant of IsTaskRequest that takes every message for a request
IsTaskRequestAny(message) == message.message_type \in MessageTypes

\* _process_agent_message: message.message_type == MessageType.TASK_REQUEST
IsTaskRequest(message) == message.message_type = "task_request"

\* the mutant of QueueGet that hands out the most urgent message first
QueueGetUrgent(queue) ==
    LET k == CHOOSE k \in 1..Len(queue) :
                 \A j \in 1..Len(queue) : queue[j].priority <= queue[k].priority
    IN  queue[k]

\* _run_autonomous_loop: self.message_queue.get_nowait() on a queue.Queue
QueueGet(queue) == Head(queue)

\* the mutant of TasksToScan that takes the list as it was before the message
\* was processed
TasksToScanEarly(st0, st1) == st0.current

\* _run_autonomous_loop: self.current_tasks[:], copied after the message was
\* processed (st0 is the agent before it, st1 after it)
TasksToScan(st0, st1) == st1.current

\* _run_autonomous_loop: one iteration from its start to its first suspension:
\* at most one message is taken and turned into a Task, then the tasks are scanned
AgentIterate(a, i) ==
    /\ loops[a][i].pc = "sleep"
    /\ is_running[a]
    /\ LET has     == message_queue[a] # <<>>
           message == QueueGet(message_queue[a])
           isreq   == has /\ IsTaskRequest(message)
           t       == Len(tasks) + 1
           st0     == AgentState(a)
           st1     == IF isreq
                      THEN [st0 EXCEPT !.tasks = Append(@, NewTask(a, message)),
                                       !.current = Append(@, t)]
                      ELSE st0
       IN  /\ message_queue' = [message_queue EXCEPT
                                   ![a] = IF has THEN Tail(@) ELSE @]
           /\ StoreAgent(a, i, RunScan(st1, a, TasksToScan(st0, st1)))
    /\ UNCHANGED <<sdk_available, is_running, coordVars, envVars, pmVars, builderVars,
                   registryVars>>

\* _execute_task resumes: the external call of the base agent returned or raised
BaseTaskReturns(a, i, ok) ==
    /\ a \notin CodingAgents
    /\ loops[a][i].pc = "exec"
    /\ LET st == FinishBaseTask(AgentState(a), loops[a][i].cur, ok)
       IN  StoreAgent(a, i, RunScan(st, a, loops[a][i].scan))
    /\ UNCHANGED <<sdk_available, is_running, message_queue, coordVars, envVars,
                   pmVars, builderVars, registryVars>>

\* _execute_task resumes: the external call of a coding agent returned or raised
CodingTaskReturns(a, i, outcome, files) ==
    /\ a \in CodingAgents
    /\ loops[a][i].pc = "exec"
    /\ outcome = "raise" => files = <<>>
    /\ LET st == FinishCodingTask(AgentState(a), loops[a][i].cur, outcome, files)
       IN  StoreAgent(a, i, RunScan(st, a, loops[a][i].scan))
    /\ UNCHANGED <<sdk_available, is_running, message_queue, coordVars, envVars,
                   pmVars, builderVars, registryVars>>

InitAgents ==
    /\ is_running = [a \in Agents |-> FALSE]
    /\ message_queue = [a \in Agents |-> <<>>]
    /\ current_tasks = [a \in Agents |-> <<>>]
    /\ completed_tasks = [a \in Agents |-> 0]
    /\ task_results = [a \in Agents |-> <<>>]
    /\ recent_task_results = [a \in Agents |-> <<>>]
    /\ loops = [a \in Agents |-> <<>>]
    /\ tasks = <<>>

\* the steps of the agents' loops while they run
AgentNext ==
    \E a \in Agents : \E i \in 1..Len(loops[a]) :
        \/ AgentIterate(a, i)
        \/ \E ok \in BOOLEAN : BaseTaskReturns(a, i, ok)
        \/ \E outcome \in {"ok", "raise"}, files \in FileLists :
              CodingTaskReturns(a, i, outcome, files)

\* a caller sends a message to an agent
SendNext ==
    \E a \in Agents, type \in {"task_request", "status_update"} :
        SendMessageToAgent(a, type)

---------------------------------------------------------------------------
(* The coordinator.                                                        *)

MaxSubmit == 2   \* calls of submit_project_task
MaxStarts == 1   \* calls of start_system
MaxPolls  == 2   \* polls of a wait loop that are told apart from the later ones

\* _wait_for_agents_completion
max_wait_time  == 300
check_interval == 2
\* wait_for_completion: its sleep, and seconds per minute of its timeout
wfc_interval   == 2
seconds_per_minute == 60

\* what callers submit: two texts, and a list in place of a text
ProjectTexts == { <<"a", "p", "i">>, <<"R", "e", "a", "c", "t">>, ListInput }

\* the subtask assignees that the decomposition replies of a run can hold
RunAssignees == {"backend_coder", "qa_tester", "unhashable"}

\* sum of f[x] over the set S
RECURSIVE SumOver(_, _)
SumOver(f, S) ==
    IF S = {} THEN 0
    ELSE LET x == CHOOSE y \in S : TRUE
         IN  f[x] + SumOver(f, S \ {x})

\* the mutant of GetStatus that counts the tasks an agent has finished instead
GetStatusStale(a) ==
    [ agent_id            |-> a,
      is_running          |-> is_running[a],
      completed_tasks     |-> completed_tasks[a],
      current_tasks_count |-> completed_tasks[a],
      pending_messages    |-> Len(message_queue[a]),
      recent_results      |-> IF recent_task_results[a] # <<>>
                              THEN LastN(recent_task_results[a], 5)
                              ELSE LastN(task_results[a], 5) ]

\* AutonomousAgent.get_status
GetStatus(a) ==
    [ agent_id            |-> a,
      is_running          |-> is_running[a],
      completed_tasks     |-> completed_tasks[a],
      current_tasks_count |-> Len(current_tasks[a]),
      pending_messages    |-> Len(message_queue[a]),
      recent_results      |-> IF recent_task_results[a] # <<>>
                              THEN LastN(recent_task_results[a], 5)
                              ELSE LastN(task_results[a], 5) ]

\* AutonomousMultiAgentSystem.get_system_status
GetSystemStatus ==
    LET agent_statuses == [a \in Agents |-> GetStatus(a)]
    IN  [ system_running        |-> system_is_running,
          total_agents          |-> Cardinality(Agents),
          total_completed_tasks |->
              SumOver([a \in Agents |-> agent_statuses[a].completed_tasks], Agents),
          total_active_tasks    |->
              SumOver([a \in Agents |-> agent_statuses[a].current_tasks_count], Agents),
          pending_projects      |-> Len(global_task_queue),
          completed_projects    |-> Len(completed_projects),
          agent_details         |-> agent_statuses ]

\* _process_main_task: project_info as first built; project is history (the
\* number of the submission), and so are waited (the elapsed_time at which the
\* completion wait ended, which end_time - start_time reflects) and polls (the
\* passes made through the body of the wait loop)
NewProjectInfo(main_task, p) ==
    [ task_description |-> main_task, status |-> "in_progress", error |-> "",
      subtasks |-> <<>>, results |-> <<>>, created_files |-> <<>>, project |-> p,
      waited |-> 0, polls |-> 0 ]

\* the mutant of FailedProject whose record is left in progress
FailedProjectInProgress(main_task, p) ==
    [ task_description |-> main_task, status |-> "in_progress",
      error |-> "Monitoring loop error",
      subtasks |-> <<>>, results |-> <<>>, created_files |-> <<>>, project |-> p,
      waited |-> 0, polls |-> 0 ]

\* _system_monitoring_loop: the record its except clause appends
FailedProject(main_task, p) ==
    [ task_description |-> main_task, status |-> "failed",
      error |-> "Monitoring loop error",
      subtasks |-> <<>>, results |-> <<>>, created_files |-> <<>>, project |-> p,
      waited |-> 0, polls |-> 0 ]

\* the mutant of OnProcessingError that only logs the error
OnProcessingErrorLogOnly(main_task, p) == completed_projects

\* _system_monitoring_loop: completed_projects after its inner except clause
\* caught what _process_main_task raised
OnProcessingError(main_task, p) ==
    Append(completed_projects, FailedProject(main_task, p))

\* _process_main_task: the subtasks it goes on with, [] when
\* analyze_and_delegate_task raised
Decompose(main_task, sdk, reply) ==
    IF AnalyzeRaises(main_task, sdk, reply) THEN <<>>
    ELSE AnalyzeAndDelegateTask(main_task, sdk, reply)

\* the mutant of OnAnalysisFailed that leaves the status as it was
OnAnalysisFailedUnmarked(info) ==
    Append(completed_projects, [info EXCEPT !.error = "Task analysis failed"])

\* _process_main_task: completed_projects after "if not subtasks"
OnAnalysisFailed(info) ==
    Append(completed_projects,
           [info EXCEPT !.status = "failed", !.error = "Task analysis failed"])

\* _process_main_task: the summary of a subtask
SubtaskSummary(subtask) ==
    [id |-> subtask.id, assigned_to |-> subtask.assigned_to,
     priority |-> subtask.priority]

\* _process_main_task: the loop over the subtasks. It returns the summaries
\* recorded, the agents assigned and the messages sent, in order, and whether
\* `subtask.assigned_to in self.coding_agents` raised (an unhashable value).
RECURSIVE Dispatch(_, _, _)
Dispatch(subtasks, p, acc) ==
    IF subtasks = <<>> THEN acc
    ELSE LET subtask == Head(subtasks)
             acc1 == [acc EXCEPT !.summaries = Append(@, SubtaskSummary(subtask))]
         IN  IF subtask.assigned_to = "unhashable"
             THEN [acc1 EXCEPT !.raised = TRUE]
             ELSE IF subtask.assigned_to \in CodingAgents
             THEN Dispatch(Tail(subtasks), p,
                      [acc1 EXCEPT
                          !.assigned = Append(@, subtask.assigned_to),
                          !.messages = Append(@, AgentMessage("project_manager",
                                          subtask.assigned_to, "task_request", p))])
             ELSE Dispatch(Tail(subtasks), p, acc1)
NoDispatch == [summaries |-> <<>>, assigned |-> <<>>, messages |-> <<>>, raised |-> FALSE]

\* the message queues after the messages were put, in order
RECURSIVE Enqueue(_, _)
Enqueue(queues, messages) ==
    IF messages = <<>> THEN queues
    ELSE Enqueue([queues EXCEPT ![Head(messages).receiver_id] = Append(@, Head(messages))],
                 Tail(messages))

\* _wait_for_agents_completion: all_completed
AllCompleted(assigned) ==
    \A k \in 1..Len(assigned) : Len(current_tasks[assigned[k]]) = 0

\* the mutant of ResultsOf that keeps the results of the project's own tasks
ResultsOfProject(a, info) ==
    SelectSeq(recent_task_results[a], LAMBDA result : result.project = info.project)

\* _wait_for_agents_completion: the results it takes from an assigned agent,
\* every dict of agent.recent_task_results
ResultsOf(a, info) == recent_task_results[a]

\* _wait_for_agents_completion: the results collected, one pass over
\* recent_task_results per assigned (agent, task id) pair
RECURSIVE Collect(_, _)
Collect(info, assigned) ==
    IF assigned = <<>> THEN info
    ELSE LET recent == ResultsOf(Head(assigned), info)
             files  == [k \in 1..Len(recent) |-> recent[k].created_files]
         IN  Collect([info EXCEPT !.results = @ \o recent,
                                  !.created_files = @ \o Join(files, <<>>)],
                     Tail(assigned))

\* the mutant of Classify that asks for created files
ClassifyFilesOnly(info) ==
    LET has_results == Len(info.results) > 0
        has_files   == Len(info.created_files) > 0
    IN  IF has_results /\ has_files
        THEN [info EXCEPT !.status = "completed"]
        ELSE [info EXCEPT !.status = "failed",
                          !.error = "No successful results or files created"]

\* _process_main_task: the status given after the completion wait
Classify(info) ==
    LET has_results == Len(info.results) > 0
        has_files   == Len(info.created_files) > 0
        has_errors  == \E k \in 1..Len(info.results) : info.results[k].error
    IN  IF has_results /\ (has_files \/ ~has_errors)
        THEN [info EXCEPT !.status = "completed"]
        ELSE [info EXCEPT !.status = "failed",
                          !.error = "No successful results or files created"]

\* a monitoring loop at its sleep, between two iterations
IdleMonitor == [pc |-> "sleep", main_task |-> <<>>, info |-> NewProjectInfo(<<>>, 0),
                assigned |-> <<>>, elapsed_time |-> 0]

\* the values elapsed_time can take at the next wake-up of a wait loop that
\* slept at e: one interval later, or, skipping polls that would see what this
\* poll saw, the limit
NextElapsed(e, interval, limit) ==
    (IF e < MaxPolls * interval /\ e + interval < limit THEN {e + interval} ELSE {})
    \cup {limit}

\* the mutant of WaitPoll that collects the results when the limit is reached
WaitPollCollectsLate(l, info, assigned, e) ==
    IF e >= max_wait_time \/ AllCompleted(assigned)
    THEN /\ completed_projects' =
                Append(completed_projects,
                       Classify(Collect([info EXCEPT !.waited = e, !.polls = @ + 1],
                                        assigned)))
         /\ monitors' = [monitors EXCEPT ![l] = IdleMonitor]
    ELSE /\ completed_projects' = completed_projects
         /\ monitors' = [monitors EXCEPT ![l] =
                [pc |-> "waiting", main_task |-> info.task_description,
                 info |-> [info EXCEPT !.polls = @ + 1],
                 assigned |-> assigned, elapsed_time |-> e]]

\* _process_main_task from the completion wait on, for monitoring loop l:
\* one poll of _wait_for_agents_completion at elapsed time e, then either the
\* sleep of the wait loop or the classification and the append
WaitPoll(l, info, assigned, e) ==
    IF e >= max_wait_time
    THEN /\ completed_projects' =
                Append(completed_projects, Classify([info EXCEPT !.waited = e]))
         /\ monitors' = [monitors EXCEPT ![l] = IdleMonitor]
    ELSE IF AllCompleted(assigned)
    THEN /\ completed_projects' =
                Append(completed_projects,
                       Classify(Collect([info EXCEPT !.waited = e, !.polls = @ + 1],
                                        assigned)))
         /\ monitors' = [monitors EXCEPT ![l] = IdleMonitor]
    ELSE /\ completed_projects' = completed_projects
         /\ monitors' = [monitors EXCEPT ![l] =
                [pc |-> "waiting", main_task |-> info.task_description,
                 info |-> [info EXCEPT !.polls = @ + 1],
                 assigned |-> assigned, elapsed_time |-> e]]

\* _process_main_task once analyze_and_delegate_task has returned subtasks
ProcessSubtasks(l, main_task, p, subtasks) ==
    LET info == NewProjectInfo(main_task, p)
    IN  IF subtasks = <<>>
        THEN /\ completed_projects' = OnAnalysisFailed(info)
             /\ monitors' = [monitors EXCEPT ![l] = IdleMonitor]
             /\ UNCHANGED <<message_queue, message_log>>
        ELSE LET d == Dispatch(subtasks, p, NoDispatch)
             IN  /\ message_queue' = Enqueue(message_queue, d.messages)
                 /\ message_log' = message_log \o d.messages
                 /\ IF d.raised
                    THEN /\ completed_projects' = OnProcessingError(main_task, p)
                         /\ monitors' = [monitors EXCEPT ![l] = IdleMonitor]
                    ELSE WaitPoll(l, [info EXCEPT !.subtasks = d.summaries],
                                  d.assigned, 0)

\* the mutant of CanDequeue under which a loop takes the next submission while
\* the processing of the previous one is still suspended
CanDequeueEarly(l) == monitors[l].pc \in {"sleep", "analyzing", "waiting"}

\* _system_monitoring_loop: a loop is at the top of an iteration only when
\* the processing it awaited has returned
CanDequeue(l) == monitors[l].pc = "sleep"

\* the mutant of QueuePut that puts the new item at the front
QueuePutFront(queue, item) == <<item>> \o queue

\* queue.Queue.put: the item goes to the back
QueuePut(queue, item) == Append(queue, item)

\* submit_project_task
SubmitProjectTask(text) ==
    /\ calls.submit < MaxSubmit
    /\ calls' = [calls EXCEPT !.submit = @ + 1, !.submitted = Append(@, text)]
    /\ global_task_queue' = QueuePut(global_task_queue, text)
    /\ UNCHANGED <<sdk_available, agentVars, system_is_running, completed_projects,
                   message_log, monitors, dequeued, wfc, pmVars, builderVars,
                   registryVars>>

\* the mutant of StartLoop under which start() creates two loop tasks
StartLoopTwice(list) == list \o <<NewLoop, NewLoop>>

\* AutonomousAgent.start: asyncio.create_task(self._run_autonomous_loop())
StartLoop(list) == Append(list, NewLoop)

\* the mutant of StartSystemWithin that creates no monitoring loop
StartSystemNoMonitor(n) ==
    /\ calls.start < n
    /\ calls' = [calls EXCEPT !.start = @ + 1]
    /\ system_is_running' = TRUE
    /\ is_running' = [a \in Agents |-> TRUE]
    /\ loops' = [a \in Agents |-> Append(loops[a], NewLoop)]
    /\ UNCHANGED <<sdk_available, message_queue, current_tasks, completed_tasks,
                   task_results, recent_task_results, tasks, global_task_queue,
                   completed_projects, message_log, monitors, dequeued, wfc,
                   pmVars, builderVars, registryVars>>

\* start_system: every agent's start(), then the monitoring loop is created
StartSystemWithin(n) ==
    /\ calls.start < n
    /\ calls' = [calls EXCEPT !.start = @ + 1]
    /\ system_is_running' = TRUE
    /\ is_running' = [a \in Agents |-> TRUE]
    /\ loops' = [a \in Agents |-> StartLoop(loops[a])]
    /\ monitors' = Append(monitors, IdleMonitor)
    /\ UNCHANGED <<sdk_available, message_queue, current_tasks, completed_tasks,
                   task_results, recent_task_results, tasks, global_task_queue,
                   completed_projects, message_log, dequeued, wfc, pmVars, builderVars,
                   registryVars>>

\* start_system, called once
StartSystem == StartSystemWithin(MaxStarts)

\* stop_system: no loop is cancelled, each one is left to find the flag
StopSystem ==
    /\ system_is_running
    /\ system_is_running' = FALSE
    /\ is_running' = [a \in Agents |-> FALSE]
    /\ loops' = [a \in Agents |->
                    [i \in 1..Len(loops[a]) |-> [loops[a][i] EXCEPT !.stopped = TRUE]]]
    /\ UNCHANGED <<sdk_available, message_queue, current_tasks, completed_tasks,
                   task_results, recent_task_results, tasks, global_task_queue,
                   completed_projects, message_log, monitors, dequeued, envVars,
                   pmVars, builderVars, registryVars>>

\* _system_monitoring_loop: the loop finds is_running false and ends
MonitorExit(l) ==
    /\ monitors[l].pc = "sleep"
    /\ ~system_is_running
    /\ monitors' = RemoveAt(monitors, l)
    /\ UNCHANGED <<sdk_available, agentVars, system_is_running, global_task_queue,
                   completed_projects, message_log, dequeued, envVars, pmVars,
                   builderVars, registryVars>>

\* _system_monitoring_loop: one iteration that finds a submission. Without the
\* SDK the decomposition returns at once and the iteration runs on to its next
\* suspension; with it, the loop suspends in the external call.
MonitorTick(l) ==
    /\ CanDequeue(l)
    /\ system_is_running
    /\ global_task_queue # <<>>
    /\ LET main_task == Head(global_task_queue)
           p == dequeued + 1
       IN  /\ global_task_queue' = Tail(global_task_queue)
           /\ dequeued' = p
           /\ IF sdk_available
              THEN /\ monitors' = [monitors EXCEPT ![l] =
                          [pc |-> "analyzing", main_task |-> main_task,
                           info |-> NewProjectInfo(main_task, p),
                           assigned |-> <<>>, elapsed_time |-> 0]]
                   /\ UNCHANGED <<message_queue, message_log, completed_projects>>
              ELSE ProcessSubtasks(l, main_task, p,
                       Decompose(main_task, FALSE, NoReply))
    /\ UNCHANGED <<sdk_available, is_running, current_tasks, completed_tasks,
                   task_results, recent_task_results, loops, tasks,
                   system_is_running, envVars, pmVars, builderVars,
                   registryVars>>

\* _process_main_task resumes: the external call of the decomposition ended
MonitorAnalysisReturns(l, reply) ==
    /\ monitors[l].pc = "analyzing"
    /\ ProcessSubtasks(l, monitors[l].main_task, monitors[l].info.project,
           Decompose(monitors[l].main_task, TRUE, reply))
    /\ UNCHANGED <<sdk_available, is_running, current_tasks, completed_tasks,
                   task_results, recent_task_results, loops, tasks,
                   system_is_running, global_task_queue, dequeued, envVars,
                   pmVars, builderVars, registryVars>>

\* _wait_for_agents_completion resumes from its sleep
MonitorWaitWakes(l) ==
    /\ monitors[l].pc = "waiting"
    /\ \E e \in NextElapsed(monitors[l].elapsed_time, check_interval, max_wait_time) :
          WaitPoll(l, monitors[l].info, monitors[l].assigned, e)
    /\ UNCHANGED <<sdk_available, agentVars, system_is_running, global_task_queue,
                   message_log, dequeued, envVars, pmVars, builderVars,
                   registryVars>>

InitCoordinator ==
    /\ system_is_running = FALSE
    /\ global_task_queue = <<>>
    /\ completed_projects = <<>>
    /\ message_log = <<>>
    /\ monitors = <<>>
    /\ dequeued = 0

\* the steps of the coordinator while it runs, and its callers' submissions
CoordinatorNext ==
    \/ \E text \in ProjectTexts : SubmitProjectTask(text)
    \/ StartSystem
    \/ \E l \in 1..Len(monitors) :
          \/ MonitorTick(l)
          \/ \E reply \in Replies(RunAssignees) : MonitorAnalysisReturns(l, reply)
          \/ MonitorWaitWakes(l)

\* the same, for decomposition replies that all end in the fallback
CoordinatorFallbackNext ==
    \/ \E text \in ProjectTexts : SubmitProjectTask(text)
    \/ StartSystem
    \/ \E l \in 1..Len(monitors) :
          \/ MonitorTick(l)
          \/ \E reply \in Replies({}) : MonitorAnalysisReturns(l, reply)
          \/ MonitorWaitWakes(l)

\* a caller gives the project manager a task of its own
SendProjectManager == SendMessageToAgent("project_manager", "task_request")

\* stop_system, and the loops that then end
StopNext ==
    \/ StopSystem
    \/ \E l \in 1..Len(monitors) : MonitorExit(l)
    \/ \E a \in Agents : \E i \in 1..Len(loops[a]) : AgentLoopExit(a, i)

---------------------------------------------------------------------------
(* wait_for_completion and its caller.                                     *)

MaxWaitCalls == 1   \* calls of wait_for_completion

IdleCaller == [pc |-> "idle", timeout |-> 0, elapsed |-> 0, polls |-> 0,
               early |-> FALSE, status |-> <<>>]

\* the mutant of AllIdleAndEmpty that forgets the submission queue
AllIdleOnly(status) ==
    \A a \in DOMAIN status.agent_details :
        ~(status.agent_details[a].current_tasks_count > 0)

\* wait_for_completion: all_idle and self.global_task_queue.empty()
AllIdleAndEmpty(status) ==
    /\ \A a \in DOMAIN status.agent_details :
          ~(status.agent_details[a].current_tasks_count > 0)
    /\ global_task_queue = <<>>

\* the mutant of BeforeTimeout that lets the loop run when no time is left
BeforeTimeoutInclusive(e, timeout) == e <= timeout

\* wait_for_completion: the condition of its while loop
BeforeTimeout(e, timeout) == e < timeout

\* wait_for_completion from the test of its while loop at elapsed time e to
\* its next suspension or its return
WfcPoll(timeout, e) ==
    IF ~BeforeTimeout(e, timeout)
    THEN wfc' = [wfc EXCEPT !.pc = "returned", !.timeout = timeout, !.elapsed = e,
                            !.early = FALSE, !.status = GetSystemStatus]
    ELSE LET status == GetSystemStatus
         IN  IF AllIdleAndEmpty(status)
             THEN wfc' = [wfc EXCEPT !.pc = "returned", !.timeout = timeout,
                                     !.elapsed = e, !.polls = @ + 1,
                                     !.early = TRUE, !.status = status]
             ELSE wfc' = [wfc EXCEPT !.pc = "polling", !.timeout = timeout,
                                     !.elapsed = e, !.polls = @ + 1]

\* wait_for_completion(timeout_minutes) is called
WaitForCompletion(timeout_minutes) ==
    /\ wfc.pc = "idle"
    /\ calls.wait < MaxWaitCalls
    /\ calls' = [calls EXCEPT !.wait = @ + 1]
    /\ WfcPoll(timeout_minutes * seconds_per_minute, 0)
    /\ UNCHANGED <<sdk_available, agentVars, coordVars, pmVars, builderVars,
                   registryVars>>

\* wait_for_completion resumes from its sleep
WaitForCompletionWakes ==
    /\ wfc.pc = "polling"
    /\ \E e \in NextElapsed(wfc.elapsed, wfc_interval, wfc.timeout) :
          WfcPoll(wfc.timeout, e)
    /\ UNCHANGED <<sdk_available, agentVars, coordVars, calls, pmVars, builderVars,
                   registryVars>>

WaitNext ==
    \/ \E timeout_minutes \in {0, 1} : WaitForCompletion(timeout_minutes)
    \/ WaitForCompletionWakes

---------------------------------------------------------------------------
(* The registries of the system: all_agents and coding_agents.             *)

\* the ids a caller passes: those of __init__ and one that no agent has
RegistryIds == Agents \cup {"qa_tester"}

\* an agent object: which object it is, and its role
AgentObject(object, role) == [object |-> object, role |-> role]

\* __init__: the agent registered under id a (its role has the id's name)
Original(a) == AgentObject(a, a)

\* the agents a caller passes to add_custom_agent: a coder and a manager
CustomAgents == {AgentObject("custom_coder", "backend_coder"),
                 AgentObject("custom_manager", "project_manager")}

\* dict[key] = value, and the dict without a key
DictSet(dict, key, value) ==
    [k \in DOMAIN dict \cup {key} |-> IF k = key THEN value ELSE dict[k]]
DictPop(dict, key) == [k \in DOMAIN dict \ {key} |-> dict[k]]

\* the mutant of IsNewId that lets an agent be registered under any id
IsAnyId(agent_id) == TRUE

\* add_custom_agent: agent_id not in self.all_agents
IsNewId(agent_id) == agent_id \notin DOMAIN all_agents

\* add_custom_agent
AddCustomAgent(agent_id, agent) ==
    /\ IF IsNewId(agent_id)
       THEN /\ all_agents' = DictSet(all_agents, agent_id, agent)
            /\ coding_agents' = IF agent.role # "project_manager"
                                THEN DictSet(coding_agents, agent_id, agent)
                                ELSE coding_agents
       ELSE UNCHANGED <<all_agents, coding_agents>>
    /\ registry_call' = [op |-> "add_custom_agent", agent_id |-> agent_id,
                         returned |-> "None"]
    /\ UNCHANGED <<sdk_available, agentVars, coordVars, envVars, pmVars, builderVars>>

\* remove_agent
RemoveAgent(agent_id) ==
    /\ IF agent_id \in DOMAIN all_agents /\ agent_id # "project_manager"
       THEN /\ all_agents' = DictPop(all_agents, agent_id)
            /\ coding_agents' = IF agent_id \in DOMAIN coding_agents
                                THEN DictPop(coding_agents, agent_id)
                                ELSE coding_agents
            /\ registry_call' = [op |-> "remove_agent", agent_id |-> agent_id,
                                 returned |-> "True"]
       ELSE /\ UNCHANGED <<all_agents, coding_agents>>
            /\ registry_call' = [op |-> "remove_agent", agent_id |-> agent_id,
                                 returned |-> "False"]
    /\ UNCHANGED <<sdk_available, agentVars, coordVars, envVars, pmVars, builderVars>>

\* __init__: the two registries
InitRegistry ==
    /\ all_agents = [a \in Agents |-> Original(a)]
    /\ coding_agents = [a \in CodingAgents |-> Original(a)]
    /\ registry_call = [op |-> "none", agent_id |-> "none", returned |-> "None"]

\* the calls of add_custom_agent and remove_agent
RegistryNext ==
    \/ \E agent_id \in RegistryIds, agent \in CustomAgents :
          AddCustomAgent(agent_id, agent)
    \/ \E agent_id \in RegistryIds : RemoveAgent(agent_id)

---------------------------------------------------------------------------
(* The system: agents, coordinator and the callers of the public API.      *)

InitPM ==
    /\ pm_main_task = <<>>
    /\ pm_reply = NoReply
    /\ pm_result = <<>>

InitBuilder ==
    /\ objective = <<>>
    /\ requirements = <<>>
    /\ constraints = <<>>
    /\ deliverables = <<>>
    /\ built = NotBuilt

InitSystem ==
    /\ InitAgents
    /\ InitCoordinator
    /\ InitRegistry
    /\ calls = [send |-> 0, submit |-> 0, start |-> 0, wait |-> 0, submitted |-> <<>>,
                access |-> 0, view |-> [name |-> "none", value |-> <<>>]]
    /\ wfc = IdleCaller

Init ==
    /\ sdk_available \in BOOLEAN
    /\ InitSystem
    /\ InitPM
    /\ InitBuilder

\* a system that is started and left running
Next == AgentNext \/ CoordinatorNext

Spec == Init /\ [][Next]_vars

\* the same, with stop_system
NextStop == AgentNext \/ CoordinatorNext \/ StopNext

SpecStop == Init /\ [][NextStop]_vars

\* the agents alone, given their messages by callers
NextAgents == AgentNext \/ SendNext \/ StartSystem \/ StopNext

SpecAgents == Init /\ [][NextAgents]_vars

\* the agents of a system that is stopped and may be started again
MaxRestarts == 2   \* calls of start_system where a stopped system is restarted

NextRestart == AgentNext \/ SendNext \/ StartSystemWithin(MaxRestarts) \/ StopNext

SpecRestart == Init /\ [][NextRestart]_vars

\* the running system and a caller of wait_for_completion, up to its return
NextWait ==
    \/ wfc.pc # "returned" /\ (AgentNext \/ CoordinatorFallbackNext \/ SendProjectManager)
    \/ WaitNext

SpecWait == Init /\ [][NextWait]_vars

---------------------------------------------------------------------------
(* The completion wait poll by poll, with no poll skipped.                 *)

\* the mutant of ExactElapsed that counts one second per sleep
ExactElapsedSlow(e, interval) == {e + 1}

\* _wait_for_agents_completion: elapsed_time += check_interval
ExactElapsed(e, interval) == {e + interval}

\* _wait_for_agents_completion resumes from its sleep
MonitorWaitWakesExact(l) ==
    /\ monitors[l].pc = "waiting"
    /\ \E e \in ExactElapsed(monitors[l].elapsed_time, check_interval) :
          WaitPoll(l, monitors[l].info, monitors[l].assigned, e)
    /\ UNCHANGED <<sdk_available, agentVars, system_is_running, global_task_queue,
                   message_log, dequeued, envVars, pmVars, builderVars,
                   registryVars>>

\* a caller gives the backend agent a task of its own
SendBackend == SendMessageToAgent("backend_coder", "task_request")

\* the running system with one task given to the backend agent and one
\* submission, its decomposition ending in the fallback
NextPolls ==
    \/ AgentNext
    \/ calls.send = 0 /\ SendBackend
    \/ calls.submit = 0 /\ SubmitProjectTask(<<"a", "p", "i">>)
    \/ StartSystem
    \/ \E l \in 1..Len(monitors) :
          \/ MonitorTick(l)
          \/ \E reply \in Replies({}) : MonitorAnalysisReturns(l, reply)
          \/ MonitorWaitWakesExact(l)

\* asyncio.sleep(check_interval) returns, so a wait loop that sleeps wakes up
PollsFairness == \A l \in 1..MaxStarts : WF_vars(Len(monitors) >= l /\ MonitorWaitWakesExact(l))

SpecPolls == Init /\ [][NextPolls]_vars /\ PollsFairness

---------------------------------------------------------------------------
(* The status and metrics accessors and their callers.                     *)

MaxAccess == 1   \* calls of an accessor

\* round(x / total * 100, 2), in hundredths of a percent
CompletionRate(x, total) ==
    IF total > 0 THEN (x * 20000 + total) \div (2 * total) ELSE 0

\* AutonomousMultiAgentSystem.get_agent_details
GetAgentDetails(agent_id) ==
    IF agent_id # "none"
    THEN IF agent_id \in Agents
         THEN LET status == GetStatus(agent_id)
              IN  [ agent_id         |-> status.agent_id,
                    is_running       |-> status.is_running,
                    completed_tasks  |-> status.completed_tasks,
                    current_tasks    |-> status.current_tasks_count,
                    pending_messages |-> status.pending_messages,
                    recent_results   |-> status.recent_results ]
         ELSE [error |-> "not found"]
    ELSE [ a \in Agents |->
             [ is_running       |-> is_running[a],
               completed_tasks  |-> completed_tasks[a],
               current_tasks    |-> Len(current_tasks[a]),
               pending_messages |-> Len(message_queue[a]) ] ]

\* AutonomousMultiAgentSystem.get_performance_metrics
GetPerformanceMetrics ==
    LET status == GetSystemStatus
        total_tasks == status.total_completed_tasks + status.total_active_tasks
    IN  [ overall_completion_rate |->
              CompletionRate(status.total_completed_tasks, total_tasks),
          total_system_tasks |-> total_tasks,
          system_utilization |-> status.total_active_tasks,
          agent_performance  |->
              [ a \in Agents |->
                  LET agent_status == status.agent_details[a]
                      agent_total  == agent_status.completed_tasks
                                      + agent_status.current_tasks_count
                  IN  [ completion_rate |->
                            CompletionRate(agent_status.completed_tasks, agent_total),
                        total_tasks |-> agent_total,
                        workload    |-> agent_status.current_tasks_count ] ],
          system_uptime      |-> system_is_running,
          message_throughput |-> Len(message_log) ]

\* AutonomousMultiAgentSystem.get_project_results
GetProjectResults == completed_projects

\* AutonomousMultiAgentSystem.get_created_files: the files of all the records
GetCreatedFiles ==
    Join([n \in 1..Len(completed_projects) |-> completed_projects[n].created_files],
         <<>>)

\* a caller gets value back from the accessor called name
Returns(name, value) ==
    /\ calls.access < MaxAccess
    /\ calls' = [calls EXCEPT !.access = @ + 1,
                              !.view = [name |-> name, value |-> value]]

\* a call of get_status, get_system_status, get_agent_details,
\* get_performance_metrics or get_project_results: the state is only read
ReadStatus ==
    /\ \/ \E a \in Agents : Returns("get_status", GetStatus(a))
       \/ Returns("get_system_status", GetSystemStatus)
       \/ \E agent_id \in Agents \cup {"none", "qa_tester"} :
             Returns("get_agent_details", GetAgentDetails(agent_id))
       \/ Returns("get_performance_metrics", GetPerformanceMetrics)
       \/ Returns("get_project_results", GetProjectResults)
    /\ UNCHANGED <<sdk_available, agentVars, coordVars, wfc, pmVars, builderVars,
                   registryVars>>

\* the mutant of ReadCreatedFiles that gathers the files in the list of the
\* first record instead of a new list
ReadCreatedFilesInPlace ==
    /\ Returns("get_created_files", GetCreatedFiles)
    /\ completed_projects' =
          IF completed_projects = <<>> THEN completed_projects
          ELSE [completed_projects EXCEPT ![1].created_files = GetCreatedFiles]
    /\ UNCHANGED <<sdk_available, agentVars, system_is_running, global_task_queue,
                   message_log, monitors, dequeued, wfc, pmVars, builderVars,
                   registryVars>>

\* a call of get_created_files: all_files is a new list, the records are read
ReadCreatedFiles ==
    /\ Returns("get_created_files", GetCreatedFiles)
    /\ completed_projects' = completed_projects
    /\ UNCHANGED <<sdk_available, agentVars, system_is_running, global_task_queue,
                   message_log, monitors, dequeued, wfc, pmVars, builderVars,
                   registryVars>>

\* the running system and the callers of its accessors
NextAccess ==
    \/ AgentNext
    \/ CoordinatorFallbackNext
    \/ ReadStatus
    \/ ReadCreatedFiles

SpecAccess == Init /\ [][NextAccess]_vars

---------------------------------------------------------------------------
(* analyze_and_delegate_task on its own: one call per text and reply.      *)

ScenarioText ==
    <<"B", "u", "i", "l", "d", " ", "a", " ", "D", "o", "c", "k", "e", "r", " ",
      "C", "I", " ", "p", "i", "p", "e", "l", "i", "n", "e", " ", "f", "o", "r", " ",
      "d", "e", "p", "l", "o", "y", "m", "e", "n", "t">>

\* the pieces the texts of the calls are made of
Fragments ==
    { <<"R", "e", "a", "c", "t">>, <<"D", "o", "c", "k", "e", "r">>,
      <<"a", "p", "i">>, <<"B", "u", "i", "l", "d">>, <<"c">>, <<"i">>, <<" ">> }

FallbackTexts == Concats(Fragments, MaxWords) \cup {ScenarioText}

\* analyze_and_delegate_task(main_task) without the SDK
AnalyzeUnavailable ==
    /\ pm_reply.kind = "none"
    /\ ~sdk_available
    /\ pm_reply' = [kind |-> "unavailable", subtasks |-> <<>>]
    /\ pm_result' = AnalyzeAndDelegateTask(pm_main_task, FALSE, NoReply)
    /\ UNCHANGED <<sdk_available, agentVars, coordVars, envVars, pm_main_task,
                   builderVars, registryVars>>

\* analyze_and_delegate_task(main_task) with the SDK, whose call ends in reply
AnalyzeReturns(reply) ==
    /\ pm_reply.kind = "none"
    /\ sdk_available
    /\ pm_reply' = reply
    /\ pm_result' = AnalyzeAndDelegateTask(pm_main_task, TRUE, reply)
    /\ UNCHANGED <<sdk_available, agentVars, coordVars, envVars, pm_main_task,
                   builderVars, registryVars>>

InitFallback ==
    /\ sdk_available \in BOOLEAN
    /\ InitSystem
    /\ pm_main_task \in FallbackTexts
    /\ pm_reply = NoReply
    /\ pm_result = <<>>
    /\ InitBuilder

NextFallback ==
    \/ AnalyzeUnavailable
    \/ \E reply \in Replies(JsonAssignees) : AnalyzeReturns(reply)

SpecFallback == InitFallback /\ [][NextFallback]_vars

---------------------------------------------------------------------------
(* A TaskBuilder and its callers.                                          *)

\* the strings callers pass: objectives (the empty one too) and items
Objectives == { <<>>, <<"o">>, <<"o", "\n", "p">> }
Items      == { <<"a">>, <<"b">>, <<"a", "\n", "b">> }
ItemLists  == SeqsUpTo(Items, 2)

ItemCount == Len(requirements) + Len(constraints) + Len(deliverables)

\* set_objective
SetObjective(o) ==
    /\ objective' = o
    /\ built' = NotBuilt
    /\ UNCHANGED <<sdk_available, agentVars, coordVars, envVars, pmVars,
                   requirements, constraints, deliverables, registryVars>>

\* add_requirement
AddRequirement(r) ==
    /\ ItemCount < MaxItems
    /\ requirements' = Append(requirements, r)
    /\ built' = NotBuilt
    /\ UNCHANGED <<sdk_available, agentVars, coordVars, envVars, pmVars,
                   objective, constraints, deliverables, registryVars>>

\* add_requirements
AddRequirements(rs) ==
    /\ ItemCount + Len(rs) <= MaxItems
    /\ requirements' = requirements \o rs
    /\ built' = NotBuilt
    /\ UNCHANGED <<sdk_available, agentVars, coordVars, envVars, pmVars,
                   objective, constraints, deliverables, registryVars>>

\* add_constraint
AddConstraint(c) ==
    /\ ItemCount < MaxItems
    /\ constraints' = Append(constraints, c)
    /\ built' = NotBuilt
    /\ UNCHANGED <<sdk_available, agentVars, coordVars, envVars, pmVars,
                   objective, requirements, deliverables, registryVars>>

\* add_constraints
AddConstraints(cs) ==
    /\ ItemCount + Len(cs) <= MaxItems
    /\ constraints' = constraints \o cs
    /\ built' = NotBuilt
    /\ UNCHANGED <<sdk_available, agentVars, coordVars, envVars, pmVars,
                   objective, requirements, deliverables, registryVars>>

\* add_deliverable
AddDeliverable(d) ==
    /\ ItemCount < MaxItems
    /\ deliverables' = Append(deliverables, d)
    /\ built' = NotBuilt
    /\ UNCHANGED <<sdk_available, agentVars, coordVars, envVars, pmVars,
                   objective, requirements, constraints, registryVars>>

\* add_deliverables
AddDeliverables(ds) ==
    /\ ItemCount + Len(ds) <= MaxItems
    /\ deliverables' = deliverables \o ds
    /\ built' = NotBuilt
    /\ UNCHANGED <<sdk_available, agentVars, coordVars, envVars, pmVars,
                   objective, requirements, constraints, registryVars>>

\* build: built holds the text returned, until the builder is changed again
BuildTask ==
    /\ built' = [done |-> TRUE,
                 text |-> Build(objective, requirements, constraints, deliverables)]
    /\ UNCHANGED <<sdk_available, agentVars, coordVars, envVars, pmVars,
                   objective, requirements, constraints, deliverables,
                   registryVars>>

\* clear
Clear ==
    /\ objective' = <<>>
    /\ requirements' = <<>>
    /\ constraints' = <<>>
    /\ deliverables' = <<>>
    /\ built' = NotBuilt
    /\ UNCHANGED <<sdk_available, agentVars, coordVars, envVars, pmVars,
                   registryVars>>

NextBuilder ==
    \/ \E o \in Objectives : SetObjective(o)
    \/ \E r \in Items : AddRequirement(r)
    \/ \E rs \in ItemLists : AddRequirements(rs)
    \/ \E c \in Items : AddConstraint(c)
    \/ \E cs \in ItemLists : AddConstraints(cs)
    \/ \E d \in Items : AddDeliverable(d)
    \/ \E ds \in ItemLists : AddDeliverables(ds)
    \/ BuildTask
    \/ Clear

SpecBuilder == Init /\ [][NextBuilder]_vars

---------------------------------------------------------------------------
(* The properties checked.                                                 *)

React  == <<"r", "e", "a", "c", "t">>
Docker == <<"d", "o", "c", "k", "e", "r">>

HasKeyword(text, keywords) == \E word \in keywords : Contains(Lower(text), word)

\* analyze_and_delegate_task was called and took one of its fallback returns:
\* no SDK, a failed call, an empty or unparsable reply, or no subtask
FellBack ==
    /\ pm_reply.kind # "none"
    /\ \/ ~sdk_available
       \/ pm_reply.kind # "json"
       \/ pm_reply.subtasks = <<>>

\* C1: when the decomposition falls back, exactly one Task is
\* returned; every text containing "docker" goes to devops_coder, every text
\* containing "react" to frontend_coder, and every text with no frontend or
\* devops keyword to backend_coder.
C1_AsStated ==
    FellBack =>
        /\ Len(pm_result) = 1
        /\ Contains(Lower(pm_main_task), Docker) =>
              pm_result[1].assigned_to = "devops_coder"
        /\ Contains(Lower(pm_main_task), React) =>
              pm_result[1].assigned_to = "frontend_coder"
        /\ (~HasKeyword(pm_main_task, FrontendKeywords)
            /\ ~HasKeyword(pm_main_task, DevopsKeywords)) =>
              pm_result[1].assigned_to = "backend_coder"

\* C2: "Build a Docker CI pipeline for deployment" without the SDK gives one
\* Task assigned to devops_coder, with tools {Write, Edit, Read}, priority 1
\* and estimated duration 30.
C2_Scenario ==
    (pm_main_task = ScenarioText /\ pm_reply.kind = "unavailable") =>
        /\ Len(pm_result) = 1
        /\ pm_result[1].assigned_to = "devops_coder"
        /\ {pm_result[1].tools_needed[k] : k \in DOMAIN pm_result[1].tools_needed}
              = {"Write", "Edit", "Read"}
        /\ pm_result[1].priority = 1
        /\ pm_result[1].estimated_duration = 30

StatusPaths ==
    { <<"pending">>, <<"pending", "in_progress">>,
      <<"pending", "in_progress", "completed">>,
      <<"pending", "in_progress", "failed">> }

\* C3: the status of every task an agent holds or has held only moves
\* pending -> in_progress -> {completed, failed}: the values it has had, in
\* order, are a prefix of one of these two paths, so it never returns to
\* pending, never leaves completed or failed, and never ends without having
\* been in_progress.
C3_StatusMonotonic ==
    \A t \in 1..Len(tasks) :
        /\ tasks[t].trace \in StatusPaths
        /\ tasks[t].status = tasks[t].trace[Len(tasks[t].trace)]

\* C3, witness: a task of the base agent that failed and a task of a coding
\* agent that completed
C3_Witness ==
    /\ \E t \in 1..Len(tasks) :
          /\ tasks[t].assigned_to = "project_manager"
          /\ tasks[t].trace = <<"pending", "in_progress", "failed">>
    /\ \E t \in 1..Len(tasks) :
          /\ tasks[t].assigned_to \in CodingAgents
          /\ tasks[t].trace = <<"pending", "in_progress", "completed">>

\* the records that _process_main_task appended after its completion wait
AfterWait(record) ==
    record.error \notin {"Task analysis failed", "Monitoring loop error"}

\* C4: a project recorded after the completion wait is completed if and only
\* if at least one result was collected and (a created file was collected or
\* no collected result has an "error" key); otherwise it is failed.
C4_Classification ==
    \A n \in 1..Len(completed_projects) :
        LET record == completed_projects[n]
        IN  AfterWait(record) =>
              /\ record.status \in {"completed", "failed"}
              /\ record.status = "completed" <=>
                    /\ record.results # <<>>
                    /\ \/ record.created_files # <<>>
                       \/ \A k \in 1..Len(record.results) : ~record.results[k].error

\* C4, witness: a project failed after its wait with no result collected, and
\* a project completed on results that hold no file and no error
C4_Witness ==
    /\ \E n \in 1..Len(completed_projects) :
          /\ AfterWait(completed_projects[n])
          /\ completed_projects[n].status = "failed"
          /\ completed_projects[n].results = <<>>
    /\ \E n \in 1..Len(completed_projects) :
          /\ completed_projects[n].status = "completed"
          /\ completed_projects[n].results # <<>>
          /\ completed_projects[n].created_files = <<>>

\* the monitoring loops that hold a submission they have not recorded yet
InFlight == {l \in 1..Len(monitors) : monitors[l].pc \in {"analyzing", "waiting"}}

\* C5: every submission taken from the queue is either still being processed
\* or has exactly one record in completed_projects, never none and never two.
C5_OneRecordPerSubmission ==
    /\ dequeued = Len(completed_projects) + Cardinality(InFlight)
    /\ \A p \in 1..dequeued :
          Cardinality({n \in 1..Len(completed_projects) :
                          completed_projects[n].project = p})
          + Cardinality({l \in InFlight : monitors[l].info.project = p}) = 1

\* C5, witness: two submissions recorded, one by the except clause of the
\* monitoring loop and one after its completion wait
C5_Witness ==
    /\ dequeued = 2
    /\ Len(completed_projects) = 2
    /\ \E n \in 1..2 : completed_projects[n].error = "Monitoring loop error"
    /\ \E n \in 1..2 : AfterWait(completed_projects[n])

\* C6: with start_system called once, at most one submission that was taken
\* from the queue has no record yet, whatever the agents' loops do meanwhile.
C6_OneInFlight ==
    calls.start <= 1 =>
        /\ dequeued - Len(completed_projects) <= 1
        /\ Cardinality(InFlight) <= 1

\* C6, witness: the second submission is in its completion wait, the first
\* one is recorded, and an agent is executing a task
C6_Witness ==
    /\ calls.start = 1
    /\ dequeued = 2
    /\ Len(completed_projects) = 1
    /\ \E l \in 1..Len(monitors) : monitors[l].pc = "waiting"
    /\ \E a \in Agents : \E i \in 1..Len(loops[a]) : loops[a][i].pc = "exec"

SystemIdle ==
    /\ \A a \in Agents : current_tasks[a] = <<>>
    /\ global_task_queue = <<>>

\* C7: wait_for_completion returns the status of the system as it is at the
\* return, and it returns before its timeout has elapsed only when no agent
\* has a task in flight and the submission queue is empty.
C7_EarlyReturnOnlyIdle ==
    wfc.pc = "returned" =>
        /\ wfc.status = GetSystemStatus
        /\ wfc.elapsed < wfc.timeout => SystemIdle

\* C7, witness: a return before the timeout, after at least one sleep
C7_Witness ==
    /\ wfc.pc = "returned"
    /\ wfc.elapsed > 0
    /\ wfc.elapsed < wfc.timeout
    /\ wfc.polls >= 2

\* C8: wait_for_completion(0) returns without a poll and without a sleep, and
\* on an idle system the status returned has total_active_tasks = 0.
C8_ZeroTimeout ==
    /\ (wfc.pc = "returned" /\ wfc.timeout = 0) =>
          /\ wfc.polls = 0
          /\ wfc.elapsed = 0
          /\ SystemIdle => wfc.status.total_active_tasks = 0
    /\ wfc.pc = "polling" => wfc.timeout > 0

\* C8, witness: wait_for_completion(0) has returned on an idle, started system
C8_Witness ==
    /\ wfc.pc = "returned"
    /\ wfc.timeout = 0
    /\ system_is_running
    /\ SystemIdle
    /\ wfc.status.total_active_tasks = 0

\* C9: get_status reports the length of the in-flight list and the size of the
\* inbound queue as they are, and total_active_tasks is the sum of the lengths
\* of the in-flight lists, in every state and in the status that
\* wait_for_completion returns.
C9_LiveCounts ==
    /\ \A a \in Agents :
          /\ GetStatus(a).current_tasks_count = Len(current_tasks[a])
          /\ GetStatus(a).pending_messages = Len(message_queue[a])
    /\ GetSystemStatus.total_active_tasks =
          Len(current_tasks["project_manager"]) + Len(current_tasks["frontend_coder"])
          + Len(current_tasks["backend_coder"]) + Len(current_tasks["devops_coder"])
    /\ wfc.pc = "returned" =>
          /\ \A a \in Agents :
                /\ wfc.status.agent_details[a].current_tasks_count = Len(current_tasks[a])
                /\ wfc.status.agent_details[a].pending_messages = Len(message_queue[a])
          /\ wfc.status.total_active_tasks =
                Len(current_tasks["project_manager"]) + Len(current_tasks["frontend_coder"])
                + Len(current_tasks["backend_coder"]) + Len(current_tasks["devops_coder"])

\* C9, witness: a status returned while two agents have a task in flight, one
\* of them has finished a task before, and a message is still queued
C9_Witness ==
    /\ wfc.pc = "returned"
    /\ wfc.status.total_active_tasks = 2
    /\ \E a \in Agents :
          /\ wfc.status.agent_details[a].current_tasks_count = 1
          /\ wfc.status.agent_details[a].completed_tasks > 0
    /\ \E a \in Agents : wfc.status.agent_details[a].pending_messages = 1

\* text.split("\n")
RECURSIVE SplitLines(_)
SplitLines(text) ==
    IF \E i \in 1..Len(text) : text[i] = "\n"
    THEN LET i == CHOOSE j \in 1..Len(text) :
                     text[j] = "\n" /\ \A k \in 1..(j - 1) : text[k] # "\n"
         IN  <<SubSeq(text, 1, i - 1)>> \o SplitLines(SubSeq(text, i + 1, Len(text)))
    ELSE <<text>>

\* whether the elements of sub occur in list in this order
RECURSIVE OccursInOrder(_, _)
OccursInOrder(sub, list) ==
    IF sub = <<>> THEN TRUE
    ELSE IF list = <<>> THEN FALSE
    ELSE IF Head(sub) = Head(list) THEN OccursInOrder(Tail(sub), Tail(list))
    ELSE OccursInOrder(sub, Tail(list))

Dashed(items) == [k \in 1..Len(items) |-> <<"-", " ">> \o items[k]]

\* the lines of the text built: "Main Objective: O" first, then "- r" for each
\* requirement, "- c" for each constraint and "- d" for each deliverable, in
\* this order
LinesInOrder ==
    LET lines == SplitLines(built.text)
        first == <<"M", "a", "i", "n", " ", "O", "b", "j", "e", "c", "t", "i", "v",
                   "e", ":", " ">> \o objective
    IN  /\ lines[1] = first
        /\ OccursInOrder(<<first>> \o Dashed(requirements) \o Dashed(constraints)
                         \o Dashed(deliverables), lines)

HasLineBreak(text) == \E i \in 1..Len(text) : text[i] = "\n"

\* C10, as stated: for every objective and every list of requirements,
\* constraints and deliverables, the lines of build() are in this order.
C10_AsStated == built.done => LinesInOrder

\* C10, amended: for every non-empty objective and all requirements,
\* constraints and deliverables, none of them holding a line break, the lines
\* of build() are in this order (an empty objective gets no line).
C10_BuildOrder ==
    ( /\ built.done
      /\ objective # <<>>
      /\ ~HasLineBreak(objective)
      /\ \A list \in {requirements, constraints, deliverables} :
            \A k \in 1..Len(list) : ~HasLineBreak(list[k]) )
    => LinesInOrder

\* C10, witness: objective, two requirements, one constraint, one deliverable
C10_Witness ==
    /\ built.done
    /\ objective = <<"o">>
    /\ requirements = << <<"a">>, <<"b">> >>
    /\ constraints = << <<"b">> >>
    /\ deliverables = << <<"a">> >>
    /\ LinesInOrder

\* what _process_main_task does when it has no subtask to go on with, for
\* monitoring loop l and the submission main_task, numbered p
AnalysisFailedStep(l, main_task, p) ==
    /\ Len(completed_projects') = Len(completed_projects) + 1
    /\ LET record == completed_projects'[Len(completed_projects')]
       IN  /\ record.status = "failed"
           /\ record.error = "Task analysis failed"
           /\ record.task_description = main_task
           /\ record.project = p
           /\ record.subtasks = <<>>
    /\ message_queue' = message_queue
    /\ message_log' = message_log
    /\ monitors'[l].pc = "sleep"

\* C11: whenever the decomposition raises or returns no subtask, the step of
\* the coordinator appends a record failed with "Task analysis failed", puts
\* no message in any agent's queue, leaves message_log as it is and does not
\* enter the completion wait.
C11_AnalysisFailed ==
    [][ \A l \in 1..Len(monitors) :
          /\ ( /\ MonitorTick(l)
               /\ ~sdk_available
               /\ Decompose(Head(global_task_queue), FALSE, NoReply) = <<>> )
             => AnalysisFailedStep(l, Head(global_task_queue), dequeued + 1)
          /\ \A reply \in Replies(RunAssignees) :
                ( /\ MonitorAnalysisReturns(l, reply)
                  /\ Decompose(monitors[l].main_task, TRUE, reply) = <<>> )
                => AnalysisFailedStep(l, monitors[l].main_task,
                                      monitors[l].info.project) ]_vars

\* C11, witness: a decomposition that raised after the external call is
\* recorded as "Task analysis failed", after an earlier project was dispatched
C11_Witness ==
    /\ sdk_available
    /\ Len(completed_projects) = 2
    /\ completed_projects[2].error = "Task analysis failed"
    /\ completed_projects[2].status = "failed"
    /\ message_log # <<>>
    /\ \A k \in 1..Len(message_log) : message_log[k].project = 1

\* the task_request messages owed to a subtask list of submission p: one per
\* subtask whose assignee is a key of coding_agents, in order
RECURSIVE OwedMessages(_, _)
OwedMessages(subtasks, p) ==
    IF subtasks = <<>> THEN <<>>
    ELSE (IF Head(subtasks).assigned_to \in CodingAgents
          THEN <<AgentMessage("project_manager", Head(subtasks).assigned_to,
                              "task_request", p)>>
          ELSE <<>>)
         \o OwedMessages(Tail(subtasks), p)

MessagesFor(messages, a) ==
    LET ForAgent(m) == m.receiver_id = a
    IN  SelectSeq(messages, ForAgent)

\* what _process_main_task does with a non-empty subtask list, for monitoring
\* loop l and submission p: the summary holds every subtask, and the messages
\* put in the queues and in message_log are the ones owed
DispatchedStep(l, p, subtasks) ==
    LET info == IF monitors'[l].pc = "waiting" THEN monitors'[l].info
                ELSE completed_projects'[Len(completed_projects')]
    IN  /\ info.project = p
        /\ Len(info.subtasks) = Len(subtasks)
        /\ \A k \in 1..Len(subtasks) :
              /\ info.subtasks[k].id = subtasks[k].id
              /\ info.subtasks[k].assigned_to = subtasks[k].assigned_to
        /\ message_log' = message_log \o OwedMessages(subtasks, p)
        /\ \A a \in Agents :
              message_queue'[a] =
                 message_queue[a] \o MessagesFor(OwedMessages(subtasks, p), a)

TimedOut(record) == AfterWait(record) /\ record.waited >= max_wait_time

\* C13: a project whose completion wait reached its limit has no result and
\* no created file collected, has its record appended all the same, and is
\* failed.
C13_TimeoutFails ==
    /\ \A n \in 1..Len(completed_projects) :
          TimedOut(completed_projects[n]) =>
             /\ completed_projects[n].results = <<>>
             /\ completed_projects[n].created_files = <<>>
             /\ completed_projects[n].status = "failed"
    /\ \A l \in 1..Len(monitors) :
          monitors[l].pc = "waiting" =>
             /\ monitors[l].elapsed_time < max_wait_time
             /\ monitors[l].info.results = <<>>
             /\ monitors[l].info.created_files = <<>>

\* C13, witness: a wait that reached its limit is recorded while the agent it
\* waited for holds results
C13_Witness ==
    \E n \in 1..Len(completed_projects) :
        /\ TimedOut(completed_projects[n])
        /\ completed_projects[n].status = "failed"
        /\ \E k \in 1..Len(completed_projects[n].subtasks) :
              LET a == completed_projects[n].subtasks[k].assigned_to
              IN  a \in CodingAgents /\ recent_task_results[a] # <<>>

\* the polls a completion wait can make: one per check_interval below the limit
PollLimit == max_wait_time \div check_interval

\* C14: _wait_for_agents_completion always terminates, after at most 150
\* polls, whatever the agents do: no wait in progress and no recorded project
\* has made more polls, and every wait in progress ends.
C14_WaitTerminates ==
    /\ [](\A l \in 1..Len(monitors) :
             monitors[l].pc = "waiting" => monitors[l].info.polls <= PollLimit)
    /\ [](\A n \in 1..Len(completed_projects) :
             completed_projects[n].polls <= PollLimit)
    /\ \A l \in 1..MaxStarts :
          (Len(monitors) >= l /\ monitors[l].pc = "waiting")
             ~> (Len(monitors) >= l /\ monitors[l].pc = "sleep")

\* C14, witness: a wait ended on its limit after 150 polls, while the agent
\* it waited for still has a task in flight
C14_Witness ==
    \E n \in 1..Len(completed_projects) :
        /\ completed_projects[n].polls = 150
        /\ completed_projects[n].waited = 300
        /\ \E k \in 1..Len(completed_projects[n].subtasks) :
              current_tasks[completed_projects[n].subtasks[k].assigned_to] # <<>>

\* the agents whose inbound queue lost a message in the step
Consumers == {a \in Agents : Len(message_queue'[a]) < Len(message_queue[a])}

\* the Task that the step made of the message at the head of a's queue: the
\* last one of tasks', created pending for a and put in a's task list (which
\* it has left only if the same iteration ran it to its end)
MadeOneTask(a) ==
    LET t == Len(tasks')
    IN  /\ t = Len(tasks) + 1
        /\ tasks'[t].assigned_to = a
        /\ tasks'[t].trace[1] = "pending"
        /\ tasks'[t].project = Head(message_queue[a]).project
        /\ \/ \E k \in 1..Len(current_tasks'[a]) : current_tasks'[a][k] = t
           \/ tasks'[t].status = "completed"
        /\ \A b \in Agents \ {a} : current_tasks'[b] = current_tasks[b]

\* C15: every message put in an agent's queue is consumed at most once, by
\* that agent: a step takes at most one message, from the head of one queue;
\* a task_request taken makes exactly one new pending Task in the receiver's
\* list; a message of another kind makes none; and no Task is made in a step
\* that takes no message.
C15_ConsumedOnce ==
    [][ /\ Cardinality(Consumers) <= 1
        /\ \A a \in Consumers :
              /\ message_queue'[a] = Tail(message_queue[a])
              /\ Head(message_queue[a]).receiver_id = a
              /\ IF Head(message_queue[a]).message_type = "task_request"
                 THEN MadeOneTask(a)
                 ELSE Len(tasks') = Len(tasks)
        /\ Consumers = {} => Len(tasks') = Len(tasks)
        /\ \A t \in 1..Len(tasks) :
              /\ t <= Len(tasks')
              /\ tasks'[t].assigned_to = tasks[t].assigned_to ]_vars

\* C15, witness: an agent has taken a task_request and a status_update, and
\* holds one Task; nothing is left in its queue
C15_Witness ==
    /\ calls.send = 2
    /\ \A a \in Agents : message_queue[a] = <<>>
    /\ Len(tasks) = 1
    /\ \E a \in CodingAgents : tasks[1].assigned_to = a /\ current_tasks[a] = <<1>>

\* loop i of agent a is still there after the step, at its sleep or in the
\* external call of a later task
LoopGoesOn(a, i) ==
    /\ Len(loops'[a]) = Len(loops[a])
    /\ loops'[a][i].pc \in {"sleep", "exec"}
    /\ loops'[a][i].pc = "exec" => loops'[a][i].cur # loops[a][i].cur

\* C16: a loop ends only when the agent's running flag is false. The failure
\* of an external call or of a task execution marks the task (failed for the
\* base agent, completed with an error result for a coding agent) and leaves
\* the loop running, and a running loop at its sleep can always start its
\* next iteration, which takes the next message and runs the pending tasks.
C16_LoopSurvives ==
    [][ \A a \in Agents :
          /\ Len(loops'[a]) < Len(loops[a]) => ~is_running[a]
          /\ \A i \in 1..Len(loops[a]) :
                /\ BaseTaskReturns(a, i, FALSE)
                      => /\ LoopGoesOn(a, i)
                         /\ tasks'[loops[a][i].cur].status = "failed"
                /\ CodingTaskReturns(a, i, "raise", <<>>)
                      => /\ LoopGoesOn(a, i)
                         /\ tasks'[loops[a][i].cur].result.error
                /\ (is_running[a] /\ loops[a][i].pc = "sleep")
                      => ENABLED AgentIterate(a, i) ]_vars

\* C16, witness: the base agent's first task failed, and the same loop then
\* took a later message and completed the task made of it
C16_Witness ==
    /\ Len(tasks) = 2
    /\ tasks[1].assigned_to = "project_manager"
    /\ tasks[1].status = "failed"
    /\ tasks[2].assigned_to = "project_manager"
    /\ tasks[2].status = "completed"
    /\ Len(loops["project_manager"]) = 1


\* C17: after stop() the task in flight is left to reach its terminal status,
\* and a loop that was alive when stop() was called starts no task in an
\* iteration that begins after the call: every task such an iteration leaves
\* other than pending is a task it has not touched.
StartsNoTask(a, i) ==
    AgentIterate(a, i) =>
        \A t \in 1..Len(tasks') :
            \/ tasks'[t].status = "pending"
            \/ t <= Len(tasks) /\ tasks'[t] = tasks[t]

C17_AsStated ==
    [][ /\ StopSystem => tasks' = tasks
        /\ \A a \in Agents : \A i \in 1..Len(loops[a]) :
              (loops[a][i].stopped /\ loops[a][i].pc = "sleep") => StartsNoTask(a, i) ]_vars

\* the loops that are inside the external call of task t
Executing(t) ==
    { x \in Agents \X (1..MaxRestarts) :
        /\ x[2] <= Len(loops[x[1]])
        /\ loops[x[1]][x[2]].pc = "exec"
        /\ loops[x[1]][x[2]].cur = t }

\* how many times a task was given the status s
RECURSIVE Times(_, _)
Times(trace, s) ==
    IF trace = <<>> THEN 0
    ELSE (IF Head(trace) = s THEN 1 ELSE 0) + Times(Tail(trace), s)

\* C18: no task is executed twice. A task is set in_progress, which is what
\* precedes the external call, at most once; at most one loop is inside the
\* external call of a task, and only while the task is in_progress; and a
\* task that is completed or failed is never changed again nor given to the
\* external call by any step of any loop.
C18_NoRetry ==
    /\ [](\A t \in 1..Len(tasks) :
            /\ Times(tasks[t].trace, "in_progress") <= 1
            /\ Cardinality(Executing(t)) <= 1
            /\ Executing(t) # {} => tasks[t].status = "in_progress")
    /\ [][ \A t \in 1..Len(tasks) :
              tasks[t].status \in {"completed", "failed"} =>
                  /\ tasks'[t] = tasks[t]
                  /\ Executing(t)' = {} ]_vars

\* C18, witness: the base agent has two loops, its first task failed and is
\* still in current_tasks, and a task that came later is completed
C18_Witness ==
    /\ Len(loops["project_manager"]) = 2
    /\ Len(tasks) = 2
    /\ tasks[1].assigned_to = "project_manager"
    /\ tasks[1].status = "failed"
    /\ current_tasks["project_manager"] = <<1>>
    /\ tasks[2].assigned_to = "project_manager"
    /\ tasks[2].status = "completed"

\* C19: for every text, analyze_and_delegate_task returns, and what it
\* returns is never the empty list; when the SDK is unavailable, the call
\* raised, the reply is empty, holds no JSON, cannot be parsed or holds no
\* subtask, it returns one Task, the fallback Task made of the text.
C19_AlwaysATask ==
    pm_reply.kind # "none" =>
        /\ ~AnalyzeRaises(pm_main_task, sdk_available, pm_reply)
        /\ pm_result # <<>>
        /\ FellBack =>
              /\ Len(pm_result) = 1
              /\ pm_result[1].id = <<"fallback_task", 1>>
              /\ pm_result[1].description = pm_main_task
              /\ pm_result[1].status = "pending"
              /\ pm_result[1].assigned_to \in CodingAgents

\* C19, witness: the reply was JSON with an empty list of subtasks, and the
\* fallback Task was returned
C19_Witness ==
    /\ sdk_available
    /\ pm_reply = [kind |-> "json", subtasks |-> <<>>]
    /\ Len(pm_result) = 1
    /\ pm_result[1].id = <<"fallback_task", 1>>

\* C20: on a system started once, the records of completed_projects are in
\* the order of submission: each record is that of the submission whose place
\* among the submissions is its place among the texts taken from the queue,
\* it holds the text submitted at that place, and a record that comes later
\* in the list is that of a later submission.
C20_Fifo ==
    calls.start <= 1 =>
        /\ \A n \in 1..Len(completed_projects) :
              /\ completed_projects[n].project \in 1..Len(calls.submitted)
              /\ completed_projects[n].task_description
                    = calls.submitted[completed_projects[n].project]
        /\ \A m, n \in 1..Len(completed_projects) :
              m < n => completed_projects[m].project < completed_projects[n].project

\* C20, witness: two different texts were submitted before the first one was
\* taken, and both are recorded
C20_Witness ==
    /\ calls.start = 1
    /\ Len(calls.submitted) = 2
    /\ calls.submitted[1] # calls.submitted[2]
    /\ Len(completed_projects) = 2
    /\ completed_projects[1].task_description = calls.submitted[1]
    /\ completed_projects[2].task_description = calls.submitted[2]
    /\ completed_projects[2].status = "completed"

\* C21: every record of completed_projects is completed or failed, none is
\* in_progress, and a record that is in the list stays in its place with the
\* status it was appended with.
C21_TerminalRecords ==
    /\ [](\A n \in 1..Len(completed_projects) :
            completed_projects[n].status \in {"completed", "failed"})
    /\ [][ \A n \in 1..Len(completed_projects) :
              /\ n <= Len(completed_projects')
              /\ completed_projects'[n].status = completed_projects[n].status ]_vars

\* C21, witness: a failed record followed by a completed one
C21_Witness ==
    /\ Len(completed_projects) = 2
    /\ completed_projects[1].status = "failed"
    /\ completed_projects[2].status = "completed"

\* C22: a call of get_status, get_system_status, get_agent_details,
\* get_performance_metrics, get_project_results or get_created_files changes
\* nothing of the agents and of the coordinator: task lists, inbound queues,
\* the submission queue, counters, message_log and completed_projects are
\* after the call what they were before it.
C22_AccessorsReadOnly ==
    [][ calls'.access # calls.access =>
            /\ agentVars' = agentVars
            /\ coordVars' = coordVars ]_vars

\* C22, witness: get_created_files returned the file of a recorded project
C22_Witness ==
    /\ calls.access = 1
    /\ calls.view.name = "get_created_files"
    /\ calls.view.value # <<>>
    /\ \E n \in 1..Len(completed_projects) : completed_projects[n].created_files # <<>>

\* the records appended because the completion wait saw every assigned agent
\* with an empty current_tasks, before its time limit
Drained(record) == AfterWait(record) /\ record.waited < max_wait_time

\* the task_request messages of project p that no agent has taken yet
Unconsumed(queues, p) ==
    { x \in Agents \X (1..(MaxSubtasks * MaxSubmit + MaxSend)) :
        /\ x[2] <= Len(queues[x[1]])
        /\ queues[x[1]][x[2]].project = p
        /\ queues[x[1]][x[2]].message_type = "task_request" }

\* C23: on the step that records a project through the drain path, no
\* task_request dispatched for it is still in an agent's inbound queue, and
\* every task made for it is completed or failed.
C23_DrainMeansDone ==
    [][ Len(completed_projects') > Len(completed_projects) =>
            LET record == completed_projects'[Len(completed_projects')]
            IN  Drained(record) =>
                    /\ Unconsumed(message_queue', record.project) = {}
                    /\ \A t \in 1..Len(tasks') :
                          tasks'[t].project = record.project
                              => tasks'[t].status \in {"completed", "failed"} ]_vars

\* C24: when wait_for_completion has returned before its timeout, no agent
\* has a message waiting in its inbound queue and no monitoring loop holds a
\* submission it has taken and not recorded yet.
C24_NoWorkRemains ==
    (wfc.pc = "returned" /\ wfc.elapsed < wfc.timeout) =>
        /\ \A a \in Agents : message_queue[a] = <<>>
        /\ InFlight = {}

\* the elements of a list
Range(list) == {list[k] : k \in 1..Len(list)}

\* C25: a step takes at most one message from an inbound queue, the oldest
\* one, and makes at most one Task, for the agent whose task_request it took;
\* and the Task is executed in the iteration that made it: a task is pending
\* only while a loop of its agent is inside an iteration, suspended in the
\* execution of another task, with this task still ahead in its scan. So
\* when the loops of an agent are all at their sleep, every message taken has
\* been executed, and k queued messages take k iterations.
C25_OnePerIteration ==
    /\ [](\A t \in 1..Len(tasks) :
            tasks[t].status = "pending" =>
                \E i \in 1..Len(loops[tasks[t].assigned_to]) :
                    /\ loops[tasks[t].assigned_to][i].pc = "exec"
                    /\ t \in Range(loops[tasks[t].assigned_to][i].scan))
    /\ [][ /\ \A a \in Agents :
                Len(message_queue'[a]) < Len(message_queue[a])
                    => message_queue'[a] = Tail(message_queue[a])
           /\ Len(tasks') <= Len(tasks) + 1
           /\ Len(tasks') > Len(tasks) =>
                \E a \in Agents :
                    /\ message_queue[a] # <<>>
                    /\ IsTaskRequest(Head(message_queue[a]))
                    /\ message_queue'[a] = Tail(message_queue[a])
                    /\ tasks'[Len(tasks')].assigned_to = a ]_vars

\* C25, witness: two task_requests were queued at once for the base agent; its
\* loop has made a task of the first and executed it, and is back at its sleep
\* with the second still in the queue
C25_Witness ==
    /\ Len(message_queue["project_manager"]) = 1
    /\ Len(tasks) = 1
    /\ tasks[1].assigned_to = "project_manager"
    /\ tasks[1].status = "completed"
    /\ Len(loops["project_manager"]) = 1
    /\ loops["project_manager"][1].pc = "sleep"
    /\ calls.send = 2

\* every task but t is as it was, or is the pending task that loop i of agent
\* a went on to, now in_progress
OthersUntouched(a, i, t) ==
    /\ Len(tasks') = Len(tasks)
    /\ \A u \in 1..Len(tasks) :
          u # t =>
              \/ tasks'[u] = tasks[u]
              \/ /\ tasks[u].status = "pending"
                 /\ tasks'[u] = SetStatus(tasks[u], "in_progress")
                 /\ loops'[a][i].pc = "exec"
                 /\ loops'[a][i].cur = u

\* C26: when the external call of a base agent's task returns, the task is
\* completed and has a result, completed_tasks grows by one, the task leaves
\* current_tasks while the others stay in their order, task_results gets one
\* entry, that of the task, and no other task is changed by the execution.
C26_BaseSuccess ==
    [][ \A a \in Agents : \A i \in 1..Len(loops[a]) :
          BaseTaskReturns(a, i, TRUE) =>
              LET t == loops[a][i].cur
              IN  /\ tasks'[t].status = "completed"
                  /\ tasks'[t].result.kind = "text"
                  /\ completed_tasks'[a] = completed_tasks[a] + 1
                  /\ current_tasks'[a] = Remove(current_tasks[a], t)
                  /\ t \in Range(current_tasks[a])
                  /\ t \notin Range(current_tasks'[a])
                  /\ task_results'[a] = Append(task_results[a], t)
                  /\ OthersUntouched(a, i, t) ]_vars

\* C26, witness: the base agent completed its second task while its first,
\* failed, stays in current_tasks
C26_Witness ==
    /\ Len(tasks) = 2
    /\ tasks[1].status = "failed"
    /\ tasks[2].status = "completed"
    /\ tasks[2].result.kind = "text"
    /\ completed_tasks["project_manager"] = 1
    /\ task_results["project_manager"] = <<2>>
    /\ current_tasks["project_manager"] = <<1>>

\* the failed tasks of the agents that execute tasks as the base class does
FailedBaseTasks ==
    {t \in 1..Len(tasks) :
        tasks[t].assigned_to \notin CodingAgents /\ tasks[t].status = "failed"}

\* C27: when the external call of a base agent's task raises, the task is
\* failed with an error text as its result, completed_tasks and task_results
\* stay as they were and the task stays in current_tasks; and it stays
\* there in every later state, so the agent's current_tasks_count is never
\* zero again and the drain test of a completion wait over a list of agents
\* that holds this agent never succeeds.
C27_BaseFailure ==
    /\ [][ \A a \in Agents : \A i \in 1..Len(loops[a]) :
             BaseTaskReturns(a, i, FALSE) =>
                 LET t == loops[a][i].cur
                 IN  /\ tasks'[t].status = "failed"
                     /\ tasks'[t].result.kind = "error_text"
                     /\ tasks'[t].result.error
                     /\ completed_tasks'[a] = completed_tasks[a]
                     /\ task_results'[a] = task_results[a]
                     /\ current_tasks'[a] = current_tasks[a]
                     /\ t \in Range(current_tasks'[a]) ]_vars
    /\ [](\A t \in FailedBaseTasks :
            /\ t \in Range(current_tasks[tasks[t].assigned_to])
            /\ GetStatus(tasks[t].assigned_to).current_tasks_count > 0
            /\ ~AllCompleted(<<tasks[t].assigned_to>>)
            /\ ~AllCompleted(<<"backend_coder", tasks[t].assigned_to>>))

\* C27, witness: the task of the base agent failed, its loop then took and
\* dropped a later message, and the task is still the agent's only one
C27_Witness ==
    /\ Len(tasks) = 1
    /\ tasks[1].assigned_to = "project_manager"
    /\ tasks[1].status = "failed"
    /\ current_tasks["project_manager"] = <<1>>
    /\ completed_tasks["project_manager"] = 0
    /\ calls.send = 2
    /\ message_queue["project_manager"] = <<>>
    /\ is_running["project_manager"]
    /\ loops["project_manager"][1].pc = "sleep"

\* C28: the result of a task is None while the task is pending or
\* in_progress and is set once it is completed or failed; it is written on
\* the step on which the status becomes completed or failed, a step that
\* finds it None, and on no other step.
C28_ResultOnce ==
    /\ [](\A t \in 1..Len(tasks) :
            (tasks[t].status \in {"pending", "in_progress"}) <=> (tasks[t].result = NoResult))
    /\ [][ \A t \in 1..Len(tasks) :
              tasks'[t].result # tasks[t].result =>
                  /\ tasks[t].result = NoResult
                  /\ tasks[t].status = "in_progress"
                  /\ tasks'[t].status \in {"completed", "failed"} ]_vars

\* C28, witness: a coding agent's task is completed with the dict of a failed
\* call as its result, and the base agent's task is in_progress with no
\* result yet
C28_Witness ==
    /\ \E t \in 1..Len(tasks) :
          /\ tasks[t].assigned_to \in CodingAgents
          /\ tasks[t].status = "completed"
          /\ tasks[t].result.kind = "dict"
          /\ tasks[t].result.error
    /\ \E t \in 1..Len(tasks) :
          /\ tasks[t].assigned_to = "project_manager"
          /\ tasks[t].status = "in_progress"
          /\ tasks[t].result = NoResult

\* the agents the coordinator assigned a subtask of the record to
AssignedOf(record) ==
    {record.subtasks[k].assigned_to : k \in 1..Len(record.subtasks)} \cap CodingAgents

\* C29: results are collected per agent and not per submission: a record made
\* through the drain path holds every result that its assigned agents have
\* in recent_task_results at that moment, whatever the project each result
\* was produced for, and nothing else. (The state the claim says is
\* reachable is C29_Witness.)
C29_CollectsAllRecent ==
    [][ Len(completed_projects') > Len(completed_projects) =>
            LET record == completed_projects'[Len(completed_projects')]
            IN  Drained(record) =>
                    Range(record.results) =
                        UNION {Range(recent_task_results[a]) : a \in AssignedOf(record)} ]_vars

\* C29, witness: the record of the second project holds a result that a task
\* dispatched for the first project produced
C29_Witness ==
    \E n \in 1..Len(completed_projects) :
        \E k \in 1..Len(completed_projects[n].results) :
            /\ completed_projects[n].results[k].project >= 1
            /\ completed_projects[n].results[k].project < completed_projects[n].project

\* how many results the agents of the set S hold in recent_task_results
RECURSIVE HeldBy(_)
HeldBy(S) ==
    IF S = {} THEN 0
    ELSE LET a == CHOOSE x \in S : TRUE
         IN  Len(recent_task_results[a]) + HeldBy(S \ {a})

\* how many files the results held by the agents of the set S name
RECURSIVE FilesHeldBy(_)
FilesHeldBy(S) ==
    IF S = {} THEN 0
    ELSE LET a == CHOOSE x \in S : TRUE
             recent == recent_task_results[a]
         IN  Len(Join([k \in 1..Len(recent) |-> recent[k].created_files], <<>>))
             + FilesHeldBy(S \ {a})

\* C30: a record made through the drain path holds each result of each
\* assigned agent at most once, and each of its files at most once, however
\* many subtasks of the project went to that agent: it has no more results
\* than its assigned agents hold, and no more files than these results name.
C30_CollectedOnce ==
    [][ Len(completed_projects') > Len(completed_projects) =>
            LET record == completed_projects'[Len(completed_projects')]
            IN  Drained(record) =>
                    /\ Len(record.results) <= HeldBy(AssignedOf(record))
                    /\ Len(record.created_files) <= FilesHeldBy(AssignedOf(record)) ]_vars

\* the tasks of agent a that have reached status completed
CompletedTasksOf(a) ==
    {t \in 1..Len(tasks) : tasks[t].assigned_to = a /\ tasks[t].status = "completed"}

\* C31: for every agent, in every reachable state, the completed_tasks
\* counter equals the number of that agent's tasks that have reached status
\* completed.
C31_CounterCountsCompleted ==
    \A a \in Agents : completed_tasks[a] = Cardinality(CompletedTasksOf(a))

---------------------------------------------------------------------------
(* One coding agent given more tasks than its buffer of recent results     *)
(* holds.                                                                  *)

MaxRecentSends == 11   \* task requests a caller sends to the backend agent

\* a caller gives the backend agent one more task
SendRecent == SendMessageWithin("backend_coder", "task_request", MaxRecentSends)

NextRecent == AgentNext \/ SendRecent \/ StartSystem

SpecRecent == Init /\ [][NextRecent]_vars

\* the results of the tasks of agent a that have finished, oldest first (an
\* agent with one loop finishes its tasks in the order it created them)
FinishedResults(a) ==
    LET done == SelectSeq(tasks, LAMBDA task :
                    task.assigned_to = a /\ task.status = "completed")
    IN  [k \in 1..Len(done) |-> done[k].result]

\* the tasks of agent a that reach status completed in the step
NewlyCompleted(a) ==
    {t \in 1..Len(tasks') :
        /\ tasks'[t].assigned_to = a
        /\ tasks'[t].status = "completed"
        /\ ~(t <= Len(tasks) /\ tasks[t].status = "completed")}

\* C32: a coding agent's recent_task_results never holds more than 10
\* entries: after n executed tasks it holds exactly the results of the
\* min(n, 10) most recently finished tasks, oldest first. The buffer changes
\* only when a task of the agent finishes, and then the result of that task
\* is its newest entry and at most the 9 entries before it are kept, in
\* their order; for an agent started once, that is the results of the last
\* min(n, 10) of its completed tasks.
C32_RecentRing ==
    /\ [](\A a \in CodingAgents :
            /\ Len(recent_task_results[a]) <= RecentLimit
            /\ calls.start <= 1 =>
                  LET finished == FinishedResults(a)
                      n == Len(finished)
                      m == IF n < RecentLimit THEN n ELSE RecentLimit
                  IN  recent_task_results[a] = SubSeq(finished, n - m + 1, n))
    /\ [][ \A a \in CodingAgents :
             LET old == recent_task_results[a]
                 new == recent_task_results'[a]
             IN  IF NewlyCompleted(a) = {}
                 THEN new = old
                 ELSE \E t \in NewlyCompleted(a) :
                         /\ NewlyCompleted(a) = {t}
                         /\ new[Len(new)] = tasks'[t].result
                         /\ IF Len(old) < RecentLimit
                            THEN new = Append(old, tasks'[t].result)
                            ELSE new = Append(Tail(old), tasks'[t].result) ]_vars

\* C32, witness: the backend agent has finished more than 10 tasks, and the
\* result that left the buffer differs from the one that is now its oldest
C32_Witness ==
    LET finished == FinishedResults("backend_coder")
    IN  /\ Len(finished) > RecentLimit
        /\ Len(recent_task_results["backend_coder"]) = RecentLimit
        /\ finished[1] # finished[2]
        /\ finished[1] # finished[Len(finished)]

---------------------------------------------------------------------------
(* Agents that are stopped and started again, start() being called only    *)
(* while the running flag is false.                                        *)

\* start_system called when no agent has its flag set
StartStopped ==
    /\ \A a \in Agents : ~is_running[a]
    /\ StartSystemWithin(MaxRestarts)

NextStartStop == AgentNext \/ SendNext \/ StartStopped \/ StopNext

SpecStartStop == Init /\ [][NextStartStop]_vars

\* the instances of _run_autonomous_loop of agent a that go on running: those
\* inside an iteration, and those asleep that will find the flag set
LiveLoops(a) ==
    {i \in 1..Len(loops[a]) :
        loops[a][i].pc = "exec" \/ (loops[a][i].pc = "sleep" /\ is_running[a])}

\* C33: when start() is never called while the running flag is true, at most
\* one instance of the autonomous loop of an agent is live at any time, also
\* when stop() and then start() are called before the old loop reaches its
\* next iteration boundary.
C33_OneLoop ==
    \A a \in Agents : Cardinality(LiveLoops(a)) <= 1

\* the tasks of agent a that are being executed
InProgressOf(a) ==
    {t \in 1..Len(tasks) : tasks[t].assigned_to = a /\ tasks[t].status = "in_progress"}

\* C34: when each agent has been started once, at most one task per agent
\* has status in_progress at any time: every other task of the agent that
\* was ever begun has reached a terminal status.
C34_OneInProgress ==
    calls.start <= 1 =>
        \A a \in Agents :
            /\ Cardinality(InProgressOf(a)) <= 1
            /\ \A t \in InProgressOf(a) : \A u \in 1..Len(tasks) :
                  (u # t /\ tasks[u].assigned_to = a)
                      => tasks[u].status \in {"completed", "failed"}

\* C34, witness: an agent that finished one task is executing its next one
\* while another agent is executing a task too
C34_Witness ==
    \E a, b \in Agents :
        /\ a # b
        /\ InProgressOf(a) # {}
        /\ InProgressOf(b) # {}
        /\ CompletedTasksOf(a) # {}

\* C35: in a coding agent every executed task ends with status completed and
\* is then out of current_tasks, whatever the external call did: a task of a
\* coding agent is never failed, goes from in_progress to completed only, is
\* in current_tasks exactly while it is not completed, and a completed one
\* holds a dict that names no created file when it has an "error" key, as it
\* has whenever the external service is unavailable.
C35_CodingTaskEnds ==
    \A t \in 1..Len(tasks) :
        tasks[t].assigned_to \in CodingAgents =>
            LET task == tasks[t]
                listed == \E k \in 1..Len(current_tasks[task.assigned_to]) :
                              current_tasks[task.assigned_to][k] = t
            IN  /\ task.status # "failed"
                /\ task.trace \in {<<"pending">>, <<"pending", "in_progress">>,
                                   <<"pending", "in_progress", "completed">>}
                /\ listed <=> task.status # "completed"
                /\ task.status = "completed" =>
                      /\ task.result.kind = "dict"
                      /\ task.result.error => task.result.created_files = <<>>
                      /\ ~sdk_available => task.result.error

\* C35, witness: with the external service available, a coding agent's task
\* whose external call failed is completed, carries the error, and is no
\* longer in current_tasks
C35_Witness ==
    /\ sdk_available
    /\ \E t \in 1..Len(tasks) :
          /\ tasks[t].assigned_to \in CodingAgents
          /\ tasks[t].status = "completed"
          /\ tasks[t].result = DictResult(TRUE, <<>>, tasks[t].project)
          /\ \A k \in 1..Len(current_tasks[tasks[t].assigned_to]) :
                current_tasks[tasks[t].assigned_to][k] # t

---------------------------------------------------------------------------
(* Agents given task requests of differing priority, some of them naming   *)
(* a dependency that is not finished.                                      *)

MaxOrderSends == 3   \* task requests that callers send

\* metadata["priority"] of a request, and the dependency lists it can name
Priorities == {1, 2}
DependencyLists == {<<>>, <<"unfinished">>}

\* the agents that are sent requests: the base agent and a coding agent
OrderAgents == {"project_manager", "backend_coder"}

\* an AgentMessage of type task_request with its metadata
TaskRequest(a, priority, dependencies) ==
    [sender_id |-> "caller", receiver_id |-> a, message_type |-> "task_request",
     priority |-> priority, project |-> 0, dependencies |-> dependencies]

\* send_message_to_agent with such a request
SendTaskRequest(a, priority, dependencies) ==
    /\ calls.send < MaxOrderSends
    /\ calls' = [calls EXCEPT !.send = @ + 1]
    /\ message_queue' = [message_queue EXCEPT
                            ![a] = Append(@, TaskRequest(a, priority, dependencies))]
    /\ UNCHANGED <<sdk_available, is_running, current_tasks, completed_tasks,
                   task_results, recent_task_results, loops, tasks, coordVars,
                   wfc, pmVars, builderVars, registryVars>>

NextOrder ==
    \/ AgentNext
    \/ StartSystem
    \/ \E a \in OrderAgents, priority \in Priorities, dependencies \in DependencyLists :
          SendTaskRequest(a, priority, dependencies)

SpecOrder == Init /\ [][NextOrder]_vars

\* C36: an agent executes its tasks in the order in which their requests
\* were enqueued, whatever their priorities and dependency lists: a request
\* is put at the tail of the queue, the one taken is the head, and the task
\* made from it is the agent's newest and is begun in that very iteration,
\* while no other task of the agent is waiting.
C36_EnqueueOrder ==
    [][ \A a \in Agents :
          /\ Len(message_queue'[a]) > Len(message_queue[a]) =>
                SubSeq(message_queue'[a], 1, Len(message_queue[a])) = message_queue[a]
          /\ Len(message_queue'[a]) < Len(message_queue[a]) =>
                /\ message_queue'[a] = Tail(message_queue[a])
                /\ IsTaskRequest(Head(message_queue[a])) =>
                      /\ Len(tasks') = Len(tasks) + 1
                      /\ tasks'[Len(tasks')].assigned_to = a
                      /\ tasks'[Len(tasks')].priority = Head(message_queue[a]).priority
                      /\ tasks'[Len(tasks')].status # "pending"
                /\ \A t \in 1..Len(tasks) :
                      tasks[t].assigned_to = a => tasks[t].status # "pending" ]_vars

\* C36, witness: an agent executes the task of a request of priority 1 while
\* a request of priority 2 that names no dependency, enqueued after it, is
\* still in its queue
C36_Witness ==
    \E a \in OrderAgents :
        /\ Len(message_queue[a]) >= 1
        /\ Head(message_queue[a]).priority = 2
        /\ Head(message_queue[a]).dependencies = <<>>
        /\ \E t \in 1..Len(tasks) :
              /\ tasks[t].assigned_to = a
              /\ tasks[t].priority = 1
              /\ tasks[t].status = "in_progress"

---------------------------------------------------------------------------
(* The running system when its sleeps end and its external calls return.   *)

\* the steps of monitoring loop l
MonitorStep(l) ==
    /\ Len(monitors) >= l
    /\ \/ MonitorTick(l)
       \/ \E reply \in Replies(RunAssignees) : MonitorAnalysisReturns(l, reply)
       \/ MonitorWaitWakes(l)

\* monitoring loop l can take a step: it sleeps with a submission queued on
\* a running system, or it is suspended in the decomposition or in its
\* completion wait (this is ENABLED <<MonitorStep(l)>>_vars)
MonitorReady(l) ==
    /\ Len(monitors) >= l
    /\ \/ monitors[l].pc = "sleep" /\ system_is_running /\ global_task_queue # <<>>
       \/ monitors[l].pc \in {"analyzing", "waiting"}

\* asyncio.sleep returns in the monitoring loop and in its completion wait,
\* and the external call of the decomposition returns or raises: weak
\* fairness of MonitorStep(l), WF_vars(MonitorStep(l)), written out
MonitorFairness ==
    \A l \in 1..MaxStarts :
        ([]<>~MonitorReady(l)) \/ ([]<><<MonitorStep(l)>>_vars)

SpecLive == Init /\ [][Next]_vars /\ MonitorFairness

\* the k-th text passed to submit_project_task has its record
Recorded(k) ==
    \E n \in 1..Len(completed_projects) :
        /\ completed_projects[n].project = k
        /\ completed_projects[n].task_description = calls.submitted[k]

\* C37: when the system has been started and is not stopped, and every sleep
\* and every external call of the coordinator returns, every text passed to
\* submit_project_task eventually has a record in completed_projects.
C37_EveryTextRecorded ==
    \A k \in 1..MaxSubmit :
        (system_is_running /\ Len(calls.submitted) >= k)
            ~> (Len(calls.submitted) >= k /\ Recorded(k))

\* C37, witness: on a running system every one of the texts submitted has
\* its record, the last one made while an agent was still executing a task
C37_Witness ==
    /\ system_is_running
    /\ Len(calls.submitted) = MaxSubmit
    /\ \A k \in 1..MaxSubmit : Recorded(k)
    /\ TimedOut(completed_projects[Len(completed_projects)])
    /\ \E a \in Agents : InProgressOf(a) # {}

---------------------------------------------------------------------------
(* Agents that are started and not stopped, when their sleeps end and      *)
(* their external calls return.                                            *)

\* the steps of loop i of agent a
AgentStep(a, i) ==
    /\ Len(loops[a]) >= i
    /\ \/ AgentIterate(a, i)
       \/ \E ok \in BOOLEAN : BaseTaskReturns(a, i, ok)
       \/ \E outcome \in {"ok", "raise"}, files \in FileLists :
             CodingTaskReturns(a, i, outcome, files)

\* loop i of agent a can take a step that changes something: it is in an
\* external call, or it sleeps while the flag is set and a message or a
\* pending task is there (this is ENABLED <<AgentStep(a, i)>>_vars)
AgentReady(a, i) ==
    /\ Len(loops[a]) >= i
    /\ \/ loops[a][i].pc = "exec"
       \/ /\ loops[a][i].pc = "sleep"
          /\ is_running[a]
          /\ \/ message_queue[a] # <<>>
             \/ \E k \in 1..Len(current_tasks[a]) : IsPending(tasks[current_tasks[a][k]])

\* asyncio.sleep returns in every loop of every agent and every external
\* call of a task returns or raises: weak fairness of AgentStep(a, i),
\* WF_vars(AgentStep(a, i)), written out
AgentFairness ==
    \A a \in Agents : \A i \in 1..MaxStarts :
        ([]<>~AgentReady(a, i)) \/ ([]<><<AgentStep(a, i)>>_vars)

NextRunning == AgentNext \/ SendNext \/ StartSystem

SpecRunning == Init /\ [][NextRunning]_vars /\ AgentFairness

\* how many task requests agent a was sent so far: those in its queue and
\* those it made tasks of
Requested(a) ==
    Cardinality({k \in 1..Len(message_queue[a]) : IsTaskRequest(message_queue[a][k])})
    + Cardinality({t \in 1..Len(tasks) : tasks[t].assigned_to = a})

\* the tasks of agent a that have reached status completed or failed
EndedTasksOf(a) ==
    {t \in 1..Len(tasks) :
        tasks[t].assigned_to = a /\ tasks[t].status \in {"completed", "failed"}}

\* C38: when an agent is running and not stopped, and its sleeps end and its
\* external calls return, every task_request enqueued to it eventually is a
\* task that has reached status completed or failed, and its inbound queue
\* is eventually empty for good once no more messages are sent.
C38_RequestsServed ==
    \A a \in Agents :
        /\ \A n \in 1..MaxSend :
              (is_running[a] /\ Requested(a) >= n)
                  ~> (Cardinality(EndedTasksOf(a)) >= n)
        /\ [](is_running[a] => <>[](message_queue[a] = <<>>))

\* C38, witness: a running agent was sent two task requests, both are tasks
\* that ended, one failed and one completed, and its queue is empty
C38_Witness ==
    \E a \in Agents :
        /\ is_running[a]
        /\ message_queue[a] = <<>>
        /\ Requested(a) = MaxSend
        /\ Cardinality(EndedTasksOf(a)) = MaxSend
        /\ CompletedTasksOf(a) # {}
        /\ EndedTasksOf(a) # CompletedTasksOf(a)

---------------------------------------------------------------------------
(* The system whose registries callers change.                             *)

SpecRegistry == Init /\ [][RegistryNext]_vars

\* C39: after any sequence of add_custom_agent and remove_agent calls the
\* ids of coding_agents are ids of all_agents and "project_manager" is
\* registered to the original project manager; no call replaces the agent
\* registered under an id; and remove_agent, for "project_manager" or an id
\* that is not registered, returns False and changes neither registry.
C39_Registries ==
    /\ [](/\ DOMAIN coding_agents \subseteq DOMAIN all_agents
          /\ "project_manager" \in DOMAIN all_agents
          /\ all_agents["project_manager"] = Original("project_manager"))
    /\ [][ /\ \A id \in DOMAIN all_agents \cap DOMAIN all_agents' :
                all_agents'[id] = all_agents[id]
           /\ \A id \in DOMAIN coding_agents \cap DOMAIN coding_agents' :
                coding_agents'[id] = coding_agents[id]
           /\ registry_call'.op = "add_custom_agent" =>
                /\ DOMAIN all_agents \subseteq DOMAIN all_agents'
                /\ DOMAIN coding_agents \subseteq DOMAIN coding_agents'
           /\ ( /\ registry_call'.op = "remove_agent"
                /\ \/ registry_call'.agent_id = "project_manager"
                   \/ registry_call'.agent_id \notin DOMAIN all_agents )
                => /\ registry_call'.returned = "False"
                   /\ all_agents' = all_agents
                   /\ coding_agents' = coding_agents ]_vars

\* C39, witness: after calls that removed one coding agent of __init__,
\* registered a custom manager under a new id and a custom agent under the
\* id of another coding agent that had been removed, a call of
\* remove_agent("project_manager") returned False
C39_Witness ==
    /\ registry_call = [op |-> "remove_agent", agent_id |-> "project_manager",
                        returned |-> "False"]
    /\ "backend_coder" \notin DOMAIN all_agents
    /\ "qa_tester" \in DOMAIN all_agents
    /\ "qa_tester" \notin DOMAIN coding_agents
    /\ "frontend_coder" \in DOMAIN coding_agents
    /\ all_agents["frontend_coder"] # Original("frontend_coder")

---------------------------------------------------------------------------
(* get_message_log and its callers.                                        *)

MaxLimit == 2   \* the largest limit a caller passes to get_message_log

\* get_message_log: the dict made of one message
LogEntry(message) ==
    [sender_id |-> message.sender_id, receiver_id |-> message.receiver_id,
     message_type |-> message.message_type, project |-> message.project]

\* AutonomousMultiAgentSystem.get_message_log(limit)
GetMessageLog(limit) ==
    LET recent_messages == IF Len(message_log) > limit
                           THEN LastN(message_log, limit)
                           ELSE message_log
    IN  [k \in 1..Len(recent_messages) |-> LogEntry(recent_messages[k])]

\* a call of get_message_log: the state is only read
ReadMessageLog ==
    /\ \E limit \in 0..MaxLimit :
          Returns("get_message_log", [limit |-> limit, log |-> GetMessageLog(limit)])
    /\ UNCHANGED <<sdk_available, agentVars, coordVars, wfc, pmVars, builderVars,
                   registryVars>>

NextLog == AgentNext \/ CoordinatorFallbackNext \/ ReadMessageLog

SpecLog == Init /\ [][NextLog]_vars

\* C40: for every limit >= 0 and every message_log, get_message_log(limit)
\* returns at most limit entries, and they are the most recent ones in log
\* order (the whole log when it has no more than limit entries).
C40_AsStated ==
    [][ (calls'.access # calls.access /\ calls'.view.name = "get_message_log") =>
            LET limit  == calls'.view.value.limit
                log    == calls'.view.value.log
                n      == Len(message_log)
                m      == IF n < limit THEN n ELSE limit
            IN  /\ Len(log) <= limit
                /\ log = [k \in 1..m |-> LogEntry(message_log[n - m + k])] ]_vars

=============================================================================
